---- MODULE Spec2Model ----
(***************************************************************************)
(* Model of the BME280 driver of src/BME280.c.                             *)
(*                                                                         *)
(* Every public driver function is one action.  A call is evaluated as a   *)
(* whole: the operators below thread a "machine" record m through the      *)
(* statements of the C function,                                           *)
(*   m.dev    the bme280_t context,                                        *)
(*   m.hw     the register file behind the bus callbacks,                  *)
(*   m.trace  the bus callbacks invoked so far in this call, in order,     *)
(*   m.ntx    the number of read/write callbacks among them,               *)
(*   m.rc     the return code of the function that just returned,          *)
(*   m.val    the bytes the last read callback stored in its buffer,       *)
(*   m.nst    the number of status reads answered in this call,            *)
(*   m.adc    the raw counts bme280_read_raw stored,                       *)
(*   m.f      the float a compensation function returned,                  *)
(*   m.out    what the call wrote to its caller (<<>>: nothing),           *)
(*   m.env    what the bus does during this call: which transaction fails  *)
(*            (failAt, 0 = none) with which code (err), and the status     *)
(*            byte (stv) the device shows on its first stk status reads.   *)
(* The device behind the bus is a plain register file: a register changes  *)
(* only when the driver writes it, a failed transaction has no effect.     *)
(***************************************************************************)
EXTENDS Integers, Sequences, FiniteSets, TLC

\* ---- src/BME280.h: register map, commands, codes -------------------------
BME280_I2C_ADDR_SDO_LOW == 118
BME280_I2C_ADDR_SDO_HIGH == 119
BME280_REG_ID == 208
BME280_REG_RESET == 224
BME280_REG_CTRL_HUM == 242
BME280_REG_STATUS == 243
BME280_REG_CTRL_MEAS == 244
BME280_REG_CONFIG == 245
BME280_REG_PRESS_MSB == 247
BME280_CALIB00_START == 136
BME280_CALIB26_START == 225
BME280_SOFT_RESET == 182
BME280_CHIP_ID == 96
BME280_STATUS_MEASURING == 8
BME280_STATUS_IM_UPDATE == 1

BME280_OSRS_X1 == 1
BME280_OSRS_X16 == 5
BME280_FILTER_OFF == 0
BME280_FILTER_16 == 4
BME280_STANDBY_1000_MS == 5
BME280_STANDBY_20_MS == 7
BME280_SLEEP_MODE == 0
BME280_FORCED_MODE == 1
BME280_NORMAL_MODE == 3

BME280_OK == 0
BME280_E_NULL_PTR == -1
BME280_E_COMM == -2
BME280_E_INVALID_ARG == -3
BME280_E_CHIP_ID_MISMATCH == -4

\* Loop bound and delay of the status poll in bme280_soft_reset.
RESET_POLLS == 20
\* Poll count and delay of the forced-mode wait in bme280_read_measurement.
MEAS_POLLS == 50
MEAS_DELAY_MS == 5
\* sizeof(buf) in bme280_read_raw
RAW_LEN == 8
RESET_DELAY_MS == 2
\* Lengths of the two calibration blocks read by bme280_read_calibration.
CALIB00_LEN == 26
CALIB26_LEN == 7

\* ---- bounds of the model -------------------------------------------------
\* A device that stays busy shows its busy status on this many status reads.
MaxBusy == 21
\* At most this many bus transactions fail between power-up and the end of
\* a run of the driver.
MaxFaults == 1
\* A device that never finishes measuring shows the measuring bit on this
\* many status reads of a call.
MaxMeasBusy == 51

\* ---- fixed-width integer helpers ----------------------------------------
Bit(x, i) == (x \div (2 ^ i)) % 2

\* x and y agree on every bit outside bits lo .. hi-1.
SameOutside(x, y, lo, hi) ==
    /\ x % (2 ^ lo) = y % (2 ^ lo)
    /\ x \div (2 ^ hi) = y \div (2 ^ hi)

\* Bits lo .. hi-1 of x as a number.
Field(x, lo, hi) == (x \div (2 ^ lo)) % (2 ^ (hi - lo))

\* a & b on w-bit unsigned operands
RECURSIVE BitAnd(_, _, _)
BitAnd(a, b, w) ==
    IF w = 0 \/ a = 0 \/ b = 0 THEN 0
    ELSE (a % 2) * (b % 2) + 2 * BitAnd(a \div 2, b \div 2, w - 1)

\* a | b on w-bit unsigned operands
BitOr(a, b, w) == a + b - BitAnd(a, b, w)

\* ~a truncated to w bits
BitNot(a, w) == (2 ^ w) - 1 - a

\* (uint8_t)x
U8(x) == x % 256

\* (int16_t)x for x in 0..65535
S16(x) == IF x >= 32768 THEN x - 65536 ELSE x

\* (int8_t)x for x in 0..255
S8(x) == IF x >= 128 THEN x - 256 ELSE x

u16_le(p, i) == p[i + 1] + p[i + 2] * 256

s16_le(p, i) == S16(p[i + 1] + p[i + 2] * 256)

\* INT32_MIN and INT32_MAX
Int32Min == -2147483647 - 1

Int32Max == 2147483647

\* x >> n on a signed operand (arithmetic shift)
Shr(x, n) == x \div (2 ^ n)

\* ---- int64_t arithmetic --------------------------------------------------
\* The model checker's integers are 32 bits wide, so an int64_t value is
\* kept as a sign and a magnitude in limbs of LimbBits bits, least
\* significant limb first, with no leading zero limb.
LimbBits == 14

Base == 2 ^ LimbBits

Limb(a, i) == IF i <= Len(a) THEN a[i] ELSE 0

RECURSIVE NTrim(_)
NTrim(a) ==
    IF a = <<>> THEN a
    ELSE IF a[Len(a)] = 0 THEN NTrim(SubSeq(a, 1, Len(a) - 1)) ELSE a

RECURSIVE NFromNat(_)
NFromNat(x) == IF x = 0 THEN <<>> ELSE <<x % Base>> \o NFromNat(x \div Base)

\* The value of a magnitude that fits the checker's integers.
RECURSIVE NToNat(_)
NToNat(a) == IF a = <<>> THEN 0 ELSE a[1] + Base * NToNat(Tail(a))

RECURSIVE NAddC(_, _, _, _)
NAddC(a, b, i, c) ==
    IF i > Len(a) /\ i > Len(b) THEN (IF c = 0 THEN <<>> ELSE <<c>>)
    ELSE <<(Limb(a, i) + Limb(b, i) + c) % Base>>
           \o NAddC(a, b, i + 1, (Limb(a, i) + Limb(b, i) + c) \div Base)

NAdd(a, b) == NAddC(a, b, 1, 0)

\* a - b for a >= b, limb i on with borrow c
RECURSIVE NSubC(_, _, _, _)
NSubC(a, b, i, c) ==
    IF i > Len(a) THEN <<>>
    ELSE IF Limb(a, i) - Limb(b, i) - c < 0
         THEN <<Limb(a, i) - Limb(b, i) - c + Base>> \o NSubC(a, b, i + 1, 1)
         ELSE <<Limb(a, i) - Limb(b, i) - c>> \o NSubC(a, b, i + 1, 0)

NSub(a, b) == NTrim(NSubC(a, b, 1, 0))

\* a < b, comparing from limb i down (both trimmed, same length)
RECURSIVE NLessAt(_, _, _)
NLessAt(a, b, i) ==
    IF i = 0 THEN FALSE
    ELSE IF a[i] # b[i] THEN a[i] < b[i] ELSE NLessAt(a, b, i - 1)

NLess(a, b) ==
    IF Len(a) # Len(b) THEN Len(a) < Len(b) ELSE NLessAt(a, b, Len(a))

\* a * k for one limb k, limb i on with carry c
RECURSIVE NMulLimb(_, _, _, _)
NMulLimb(a, k, i, c) ==
    IF i > Len(a) THEN (IF c = 0 THEN <<>> ELSE <<c>>)
    ELSE <<(a[i] * k + c) % Base>>
           \o NMulLimb(a, k, i + 1, (a[i] * k + c) \div Base)

\* a * b, summing a * b[i] * Base^(i-1) from limb i of b on
RECURSIVE NMulFrom(_, _, _)
NMulFrom(a, b, i) ==
    IF i > Len(b) THEN <<>>
    ELSE NAdd(NMulLimb(a, b[i], 1, 0), <<0>> \o NMulFrom(a, b, i + 1))

NMul(a, b) == NTrim(NMulFrom(a, b, 1))

\* a * 2^n
NShl(a, n) ==
    NTrim([i \in 1..(n \div LimbBits) |-> 0]
            \o NMulLimb(a, 2 ^ (n % LimbBits), 1, 0))

\* a \div 2^n
NShr(a, n) ==
    LET k == n \div LimbBits
        r == n % LimbBits
    IN NTrim([i \in 1..(IF Len(a) > k THEN Len(a) - k ELSE 0) |->
                (a[i + k] \div (2 ^ r))
                  + (Limb(a, i + k + 1) % (2 ^ r)) * (2 ^ (LimbBits - r))])

\* The largest digit d >= q, differing from q in bits k..0 only, with
\* d * b <= r.
RECURSIVE QDigit(_, _, _, _)
QDigit(r, b, k, q) ==
    IF k < 0 THEN q
    ELSE IF NLess(r, NMulLimb(b, q + 2 ^ k, 1, 0))
         THEN QDigit(r, b, k - 1, q)
         ELSE QDigit(r, b, k - 1, q + 2 ^ k)

\* Long division of a by b # 0: the quotient limbs i..1 of a yield, given
\* the remainder r left by the limbs above.
RECURSIVE NDivAt(_, _, _, _)
NDivAt(a, b, i, r) ==
    LET Dig(r2, q) ==
            NDivAt(a, b, i - 1, NSub(r2, NMulLimb(b, q, 1, 0))) \o <<q>>
        Rem(r2) == Dig(r2, QDigit(r2, b, LimbBits - 1, 0))
    IN IF i = 0 THEN <<>> ELSE Rem(NTrim(<<a[i]>> \o r))

\* a \div b for b # 0
NDiv(a, b) == NTrim(NDivAt(a, b, Len(a), <<>>))

\* Signed values.
I64(x) ==
    IF x = Int32Min THEN [neg |-> TRUE, mag |-> NShl(<<1>>, 31)]
    ELSE [neg |-> x < 0, mag |-> NFromNat(IF x < 0 THEN -x ELSE x)]

INorm(neg, mag) == [neg |-> neg /\ mag # <<>>, mag |-> mag]

INeg(a) == INorm(~a.neg, a.mag)

IAdd(a, b) ==
    IF a.neg = b.neg THEN INorm(a.neg, NAdd(a.mag, b.mag))
    ELSE IF NLess(a.mag, b.mag) THEN INorm(b.neg, NSub(b.mag, a.mag))
         ELSE INorm(a.neg, NSub(a.mag, b.mag))

ISub(a, b) == IAdd(a, INeg(b))

IMul(a, b) == INorm(a.neg # b.neg, NMul(a.mag, b.mag))

\* a << n
IShl(a, n) == INorm(a.neg, NShl(a.mag, n))

\* a >> n (arithmetic: rounds toward minus infinity)
IShr(a, n) ==
    IF a.neg
    THEN INorm(TRUE, NShr(NAdd(a.mag, NSub(NShl(<<1>>, n), <<1>>)), n))
    ELSE INorm(FALSE, NShr(a.mag, n))

\* a / b for b # 0 (C division: rounds toward zero)
IDiv(a, b) == INorm(a.neg # b.neg, NDiv(a.mag, b.mag))

IIsZero(a) == a.mag = <<>>

\* The value of a signed value that fits the checker's integers.
IToInt(a) == IF a.neg THEN -NToNat(a.mag) ELSE NToNat(a.mag)

\* ---- int32_t arithmetic --------------------------------------------------
\* The low 32 bits of a signed value, as an int32_t.  A magnitude's low 32
\* bits are its first two limbs and the low 4 bits of the third.
W32(a) ==
    LET lo == Limb(a.mag, 1) + Base * Limb(a.mag, 2)
        top == Limb(a.mag, 3) % 16
        u == lo + (IF top >= 8 THEN top - 16 ELSE top) * 268435456
    IN IF ~a.neg \/ u = Int32Min THEN u ELSE -u

Abs(x) == IF x < 0 THEN -x ELSE x

\* a * b in int32_t; a product that does not fit wraps around.
Mul32(a, b) ==
    IF a = 0 \/ b = 0 THEN 0
    ELSE IF a # Int32Min /\ b # Int32Min
              /\ Abs(a) <= 2147483647 \div Abs(b)
         THEN a * b
         ELSE W32(IMul(I64(a), I64(b)))

\* a + b in int32_t; a sum that does not fit wraps around.
Add32(a, b) ==
    IF (a >= 0 /\ b <= 0) \/ (a <= 0 /\ b >= 0) THEN a + b
    ELSE IF a > 0 /\ a <= 2147483647 - b THEN a + b
    ELSE IF a < 0 /\ a >= Int32Min - b THEN a + b
    ELSE W32(IAdd(I64(a), I64(b)))

\* a - b in int32_t
Sub32(a, b) ==
    IF b = Int32Min THEN W32(ISub(I64(a), I64(b))) ELSE Add32(a, -b)

\* a << n in int32_t
Shl32(a, n) == Mul32(a, 2 ^ n)

\* ---- the device behind the bus (bus callbacks of bme280_bus_t) -----------
\* Status byte the device shows on the n-th status read of a call.
StatusByte(env, n) == IF n <= env.stk THEN env.stv ELSE 0

\* What a successful read callback stores in the buffer.
HwRead(hw, reg, len, st) ==
    CASE reg = BME280_REG_ID -> <<hw.id>>
      [] reg = BME280_REG_CTRL_HUM -> <<hw.ctrl_hum>>
      [] reg = BME280_REG_STATUS -> <<st>>
      [] reg = BME280_REG_CTRL_MEAS -> <<hw.ctrl_meas>>
      [] reg = BME280_REG_CONFIG -> <<hw.config>>
      [] reg = BME280_CALIB00_START -> SubSeq(hw.cal1, 1, len)
      [] reg = BME280_CALIB26_START -> SubSeq(hw.cal2, 1, len)
      [] reg = BME280_REG_PRESS_MSB -> SubSeq(hw.raw, 1, len)
      [] OTHER -> [i \in 1..len |-> 0]

\* What a successful one-byte write callback does to the register file.
\* The reset register is write-only: the command is seen on the bus only.
HwWrite(hw, reg, val) ==
    CASE reg = BME280_REG_CTRL_HUM -> [hw EXCEPT !.ctrl_hum = val]
      [] reg = BME280_REG_CTRL_MEAS -> [hw EXCEPT !.ctrl_meas = val]
      [] reg = BME280_REG_CONFIG -> [hw EXCEPT !.config = val]
      [] OTHER -> hw

\* One entry of the bus trace: the callback ("r", "w" or "d"), the register
\* and length it was given (the milliseconds, for a delay), the bytes moved
\* and the code the callback returned.
Ev(op, reg, len, data, ret) ==
    [op |-> op, reg |-> reg, len |-> len, data |-> data, ret |-> ret]

\* The code the next read/write callback returns.
BusRet(m) == IF m.ntx + 1 = m.env.failAt THEN m.env.err ELSE BME280_OK

\* dev->bus.read(dev->bus.user, reg, buf, len)
bus_read(m, reg, len) ==
    LET Got(ret, data) ==
            [m EXCEPT !.trace = Append(@, Ev("r", reg, len, data, ret)),
                      !.ntx = @ + 1,
                      !.nst = IF reg = BME280_REG_STATUS /\ ret = BME280_OK
                              THEN @ + 1 ELSE @,
                      !.val = data,
                      !.rc = ret]
    IN IF BusRet(m) # BME280_OK THEN Got(BusRet(m), <<>>)
       ELSE Got(BME280_OK,
                HwRead(m.hw, reg, len, StatusByte(m.env, m.nst + 1)))

\* dev->bus.write(dev->bus.user, reg, &val, 1)
bus_write(m, reg, val) ==
    [m EXCEPT !.trace = Append(@, Ev("w", reg, 1, <<val>>, BusRet(m))),
              !.ntx = @ + 1,
              !.hw = IF BusRet(m) # BME280_OK THEN @ ELSE HwWrite(@, reg, val),
              !.rc = BusRet(m)]

\* ---- src/BME280.c: internal helpers --------------------------------------
\* bme280_write_u8 reporting a missing write callback as a bus failure.
bme280_write_u8_comm(m, reg, val) ==
    IF m.dev.bus.write THEN bus_write(m, reg, val)
    ELSE [m EXCEPT !.rc = BME280_E_COMM]

bme280_write_u8(m, reg, val) ==
    IF m.dev.bus.write THEN bus_write(m, reg, val)
    ELSE [m EXCEPT !.rc = BME280_E_NULL_PTR]

bme280_read_u8(m, reg) ==
    IF ~m.dev.bus.read THEN [m EXCEPT !.rc = BME280_E_NULL_PTR]
    ELSE bus_read(m, reg, 1)

bme280_read_buf(m, reg, len) ==
    IF ~m.dev.bus.read THEN [m EXCEPT !.rc = BME280_E_NULL_PTR]
    ELSE bus_read(m, reg, len)

\* bme280_update_bits without the early return for an unchanged value.
bme280_update_bits_always_write(m, reg, mask, value) ==
    LET Cur(r) ==
            IF r.rc # BME280_OK THEN r
            ELSE bme280_write_u8(r, reg,
                     BitOr(BitAnd(r.val[1], BitNot(mask, 8), 8),
                           BitAnd(value, mask, 8), 8))
    IN Cur(bme280_read_u8(m, reg))

\* bme280_update_bits dropping the bits outside the mask.
bme280_update_bits_clobber(m, reg, mask, value) ==
    LET Store(r, cur, newv) ==
            IF newv = cur THEN [r EXCEPT !.rc = BME280_OK]
            ELSE bme280_write_u8(r, reg, newv)
        Cur(r) ==
            IF r.rc # BME280_OK THEN r
            ELSE Store(r, r.val[1], BitAnd(value, mask, 8))
    IN Cur(bme280_read_u8(m, reg))

\* bme280_update_bits reporting every failed read as BME280_E_COMM.
bme280_update_bits_comm(m, reg, mask, value) ==
    LET Store(r, cur, newv) ==
            IF newv = cur THEN [r EXCEPT !.rc = BME280_OK]
            ELSE bme280_write_u8(r, reg, newv)
        Cur(r) ==
            IF r.rc # BME280_OK THEN [r EXCEPT !.rc = BME280_E_COMM]
            ELSE Store(r, r.val[1],
                       BitOr(BitAnd(r.val[1], BitNot(mask, 8), 8),
                             BitAnd(value, mask, 8), 8))
    IN Cur(bme280_read_u8(m, reg))

\* Each statement that follows a call is written as a local operator applied
\* to the machine the call returns, named after the C variable it fills.
bme280_update_bits(m, reg, mask, value) ==
    LET Store(r, cur, newv) ==
            IF newv = cur THEN [r EXCEPT !.rc = BME280_OK]
            ELSE bme280_write_u8(r, reg, newv)
        Cur(r) ==
            IF r.rc # BME280_OK THEN r
            ELSE Store(r, r.val[1],
                       BitOr(BitAnd(r.val[1], BitNot(mask, 8), 8),
                             BitAnd(value, mask, 8), 8))
    IN Cur(bme280_read_u8(m, reg))

bme280_delay(m, ms) ==
    IF m.dev.bus.delay_ms
    THEN [m EXCEPT !.trace = Append(@, Ev("d", 0, ms, <<>>, BME280_OK))]
    ELSE m

bme280_read_chip_id(m) == bme280_read_u8(m, BME280_REG_ID)

\* The poll loop of bme280_soft_reset reporting an exhausted loop as a
\* communication error.
RECURSIVE soft_reset_poll_timeout(_, _)
soft_reset_poll_timeout(m, i) ==
    LET St(r) ==
            IF r.rc # BME280_OK THEN r
            ELSE IF BitAnd(r.val[1], BME280_STATUS_IM_UPDATE, 8) = 0
                 THEN [r EXCEPT !.rc = BME280_OK]
                 ELSE soft_reset_poll_timeout(bme280_delay(r, RESET_DELAY_MS),
                                              i + 1)
    IN IF i >= RESET_POLLS THEN [m EXCEPT !.rc = BME280_E_COMM]
       ELSE St(bme280_read_u8(m, BME280_REG_STATUS))

\* The poll loop of bme280_soft_reset polling once more than RESET_POLLS.
RECURSIVE soft_reset_poll_one_more(_, _)
soft_reset_poll_one_more(m, i) ==
    LET St(r) ==
            IF r.rc # BME280_OK THEN r
            ELSE IF BitAnd(r.val[1], BME280_STATUS_IM_UPDATE, 8) = 0
                 THEN [r EXCEPT !.rc = BME280_OK]
                 ELSE soft_reset_poll_one_more(bme280_delay(r, RESET_DELAY_MS),
                                               i + 1)
    IN IF i > RESET_POLLS THEN [m EXCEPT !.rc = BME280_OK]
       ELSE St(bme280_read_u8(m, BME280_REG_STATUS))

\* The poll loop of bme280_soft_reset, from iteration i on.
RECURSIVE soft_reset_poll(_, _)
soft_reset_poll(m, i) ==
    LET St(r) ==
            IF r.rc # BME280_OK THEN r
            ELSE IF BitAnd(r.val[1], BME280_STATUS_IM_UPDATE, 8) = 0
                 THEN [r EXCEPT !.rc = BME280_OK]
                 ELSE soft_reset_poll(bme280_delay(r, RESET_DELAY_MS), i + 1)
    IN IF i >= RESET_POLLS THEN [m EXCEPT !.rc = BME280_OK]
       ELSE St(bme280_read_u8(m, BME280_REG_STATUS))

\* bme280_soft_reset marking the calibration as not loaded.
bme280_soft_reset_drop_calib(m) ==
    LET Rc(w) == IF w.rc # BME280_OK THEN w ELSE soft_reset_poll(w, 0)
    IN Rc(bme280_write_u8([m EXCEPT !.dev.calib_loaded = FALSE],
                          BME280_REG_RESET, BME280_SOFT_RESET))

bme280_soft_reset(m) ==
    LET Rc(w) == IF w.rc # BME280_OK THEN w ELSE soft_reset_poll(w, 0)
    IN Rc(bme280_write_u8(m, BME280_REG_RESET, BME280_SOFT_RESET))

\* The packed 12-bit field taken as an unsigned value.
SignExtend12_unsigned(raw) == S16(raw)

\* Sign extension of a packed 12-bit field (H4, H5) to int16_t.
SignExtend12(raw) ==
    IF BitAnd(raw, 2048, 16) # 0 THEN S16(BitOr(raw, 61440, 16)) ELSE S16(raw)

\* The assignments of bme280_read_calibration after the first block read.
calib_block1(calib, buf1) ==
    [calib EXCEPT !.dig_T1 = u16_le(buf1, 0),
                  !.dig_T2 = s16_le(buf1, 2),
                  !.dig_T3 = s16_le(buf1, 4),
                  !.dig_P1 = u16_le(buf1, 6),
                  !.dig_P2 = s16_le(buf1, 8),
                  !.dig_P3 = s16_le(buf1, 10),
                  !.dig_P4 = s16_le(buf1, 12),
                  !.dig_P5 = s16_le(buf1, 14),
                  !.dig_P6 = s16_le(buf1, 16),
                  !.dig_P7 = s16_le(buf1, 18),
                  !.dig_P8 = s16_le(buf1, 20),
                  !.dig_P9 = s16_le(buf1, 22),
                  !.dig_H1 = buf1[24 + 1]]

\* The assignments of bme280_read_calibration after the second block read.
calib_block2(calib, buf2) ==
    [calib EXCEPT
       !.dig_H2 = s16_le(buf2, 0),
       !.dig_H3 = buf2[2 + 1],
       !.dig_H4 = SignExtend12(BitOr(buf2[3 + 1] * 16,
                                     BitAnd(buf2[4 + 1], 15, 8), 16)),
       !.dig_H5 = SignExtend12(BitOr(buf2[5 + 1] * 16,
                                     buf2[4 + 1] \div 16, 16)),
       !.dig_H6 = S8(buf2[6 + 1])]

bme280_read_calibration(m) ==
    LET Buf2(r2) ==
            IF r2.rc # BME280_OK THEN r2
            ELSE [r2 EXCEPT !.dev.calib = calib_block2(@, r2.val),
                            !.dev.calib_loaded = TRUE,
                            !.rc = BME280_OK]
        Buf1(r1) ==
            IF r1.rc # BME280_OK THEN r1
            ELSE Buf2(bme280_read_buf(
                        [r1 EXCEPT !.dev.calib = calib_block1(@, r1.val)],
                        BME280_CALIB26_START, CALIB26_LEN))
    IN Buf1(bme280_read_buf(m, BME280_CALIB00_START, CALIB00_LEN))

\* bme280_set_oversampling rebuilding ctrl_meas without the mode bits.
bme280_set_oversampling_drop_mode(m, osr_t, osr_p, osr_h) ==
    LET Done(w) ==
            IF w.rc # BME280_OK THEN w
            ELSE [w EXCEPT !.dev.settings.osr_t = osr_t,
                           !.dev.settings.osr_p = osr_p,
                           !.dev.settings.osr_h = osr_h,
                           !.rc = BME280_OK]
        CtrlMeas(r) ==
            IF r.rc # BME280_OK THEN r
            ELSE Done(bme280_write_u8(r, BME280_REG_CTRL_MEAS,
                        U8(BitOr(BitAnd(osr_t, 7, 8) * 32,
                                 BitAnd(osr_p, 7, 8) * 4, 8))))
        Hum(u) ==
            IF u.rc # BME280_OK THEN u
            ELSE CtrlMeas(bme280_read_u8(u, BME280_REG_CTRL_MEAS))
    IN IF osr_t > BME280_OSRS_X16 \/ osr_p > BME280_OSRS_X16
             \/ osr_h > BME280_OSRS_X16
       THEN [m EXCEPT !.rc = BME280_E_INVALID_ARG]
       ELSE Hum(bme280_update_bits(m, BME280_REG_CTRL_HUM, 7, U8(osr_h)))

\* bme280_set_oversampling updating ctrl_meas before ctrl_hum.
bme280_set_oversampling_meas_first(m, osr_t, osr_p, osr_h) ==
    LET Done(w) ==
            IF w.rc # BME280_OK THEN w
            ELSE [w EXCEPT !.dev.settings.osr_t = osr_t,
                           !.dev.settings.osr_p = osr_p,
                           !.dev.settings.osr_h = osr_h,
                           !.rc = BME280_OK]
        Hum(u) ==
            IF u.rc # BME280_OK THEN u
            ELSE Done(bme280_update_bits(u, BME280_REG_CTRL_HUM, 7, U8(osr_h)))
        CtrlMeas(r) ==
            IF r.rc # BME280_OK THEN r
            ELSE Hum(bme280_write_u8(r, BME280_REG_CTRL_MEAS,
                        U8(BitOr(BitOr(BitAnd(r.val[1], 3, 8),
                                       BitAnd(osr_t, 7, 8) * 32, 8),
                                 BitAnd(osr_p, 7, 8) * 4, 8))))
    IN IF osr_t > BME280_OSRS_X16 \/ osr_p > BME280_OSRS_X16
             \/ osr_h > BME280_OSRS_X16
       THEN [m EXCEPT !.rc = BME280_E_INVALID_ARG]
       ELSE CtrlMeas(bme280_read_u8(m, BME280_REG_CTRL_MEAS))

\* bme280_set_oversampling validating the temperature and pressure levels
\* only.
bme280_set_oversampling_unchecked_h(m, osr_t, osr_p, osr_h) ==
    LET Done(w) ==
            IF w.rc # BME280_OK THEN w
            ELSE [w EXCEPT !.dev.settings.osr_t = osr_t,
                           !.dev.settings.osr_p = osr_p,
                           !.dev.settings.osr_h = osr_h,
                           !.rc = BME280_OK]
        CtrlMeas(r) ==
            IF r.rc # BME280_OK THEN r
            ELSE Done(bme280_write_u8(r, BME280_REG_CTRL_MEAS,
                        U8(BitOr(BitOr(BitAnd(r.val[1], 3, 8),
                                       BitAnd(osr_t, 7, 8) * 32, 8),
                                 BitAnd(osr_p, 7, 8) * 4, 8))))
        Hum(u) ==
            IF u.rc # BME280_OK THEN u
            ELSE CtrlMeas(bme280_read_u8(u, BME280_REG_CTRL_MEAS))
    IN IF osr_t > BME280_OSRS_X16 \/ osr_p > BME280_OSRS_X16
       THEN [m EXCEPT !.rc = BME280_E_INVALID_ARG]
       ELSE Hum(bme280_update_bits(m, BME280_REG_CTRL_HUM, 7, U8(osr_h)))

bme280_set_oversampling(m, osr_t, osr_p, osr_h) ==
    LET Done(w) ==
            IF w.rc # BME280_OK THEN w
            ELSE [w EXCEPT !.dev.settings.osr_t = osr_t,
                           !.dev.settings.osr_p = osr_p,
                           !.dev.settings.osr_h = osr_h,
                           !.rc = BME280_OK]
        CtrlMeas(r) ==
            IF r.rc # BME280_OK THEN r
            ELSE Done(bme280_write_u8(r, BME280_REG_CTRL_MEAS,
                        U8(BitOr(BitOr(BitAnd(r.val[1], 3, 8),
                                       BitAnd(osr_t, 7, 8) * 32, 8),
                                 BitAnd(osr_p, 7, 8) * 4, 8))))
        Hum(u) ==
            IF u.rc # BME280_OK THEN u
            ELSE CtrlMeas(bme280_read_u8(u, BME280_REG_CTRL_MEAS))
    IN IF osr_t > BME280_OSRS_X16 \/ osr_p > BME280_OSRS_X16
             \/ osr_h > BME280_OSRS_X16
       THEN [m EXCEPT !.rc = BME280_E_INVALID_ARG]
       ELSE Hum(bme280_update_bits(m, BME280_REG_CTRL_HUM, 7, U8(osr_h)))

\* bme280_set_filter recording the coefficient whatever the bus returned.
bme280_set_filter_commit_early(m, filter) ==
    LET Rc(u) == [u EXCEPT !.dev.settings.filter = filter]
    IN IF filter > BME280_FILTER_16
       THEN [m EXCEPT !.rc = BME280_E_INVALID_ARG]
       ELSE Rc(bme280_update_bits(m, BME280_REG_CONFIG, 28, U8(filter * 4)))

bme280_set_filter(m, filter) ==
    LET Rc(u) == IF u.rc = BME280_OK
                 THEN [u EXCEPT !.dev.settings.filter = filter]
                 ELSE u
    IN IF filter > BME280_FILTER_16
       THEN [m EXCEPT !.rc = BME280_E_INVALID_ARG]
       ELSE Rc(bme280_update_bits(m, BME280_REG_CONFIG, 28, U8(filter * 4)))

\* bme280_set_standby shifting the interval by 4 instead of 5.
bme280_set_standby_shift4(m, standby) ==
    LET Rc(u) == IF u.rc = BME280_OK
                 THEN [u EXCEPT !.dev.settings.standby = standby]
                 ELSE u
    IN IF standby > BME280_STANDBY_20_MS
       THEN [m EXCEPT !.rc = BME280_E_INVALID_ARG]
       ELSE Rc(bme280_update_bits(m, BME280_REG_CONFIG, 224,
                                  U8(standby * 16)))

\* bme280_set_standby storing the interval whatever the register update
\* returned.
bme280_set_standby_commit_early(m, standby) ==
    LET Rc(u) == [u EXCEPT !.dev.settings.standby = standby]
    IN IF standby > BME280_STANDBY_20_MS
       THEN [m EXCEPT !.rc = BME280_E_INVALID_ARG]
       ELSE Rc(bme280_update_bits(m, BME280_REG_CONFIG, 224,
                                  U8(standby * 32)))

bme280_set_standby(m, standby) ==
    LET Rc(u) == IF u.rc = BME280_OK
                 THEN [u EXCEPT !.dev.settings.standby = standby]
                 ELSE u
    IN IF standby > BME280_STANDBY_20_MS
       THEN [m EXCEPT !.rc = BME280_E_INVALID_ARG]
       ELSE Rc(bme280_update_bits(m, BME280_REG_CONFIG, 224,
                                  U8(standby * 32)))

\* bme280_set_mode validating with a range check (mode <= 3).
bme280_set_mode_le3(m, mode) ==
    LET Rc(u) == IF u.rc = BME280_OK
                 THEN [u EXCEPT !.dev.settings.mode = mode]
                 ELSE u
    IN IF mode > BME280_NORMAL_MODE
       THEN [m EXCEPT !.rc = BME280_E_INVALID_ARG]
       ELSE Rc(bme280_update_bits(m, BME280_REG_CTRL_MEAS, 3, U8(mode)))

bme280_set_mode(m, mode) ==
    LET Rc(u) == IF u.rc = BME280_OK
                 THEN [u EXCEPT !.dev.settings.mode = mode]
                 ELSE u
    IN IF ~(mode = BME280_SLEEP_MODE \/ mode = BME280_FORCED_MODE
              \/ mode = BME280_NORMAL_MODE)
       THEN [m EXCEPT !.rc = BME280_E_INVALID_ARG]
       ELSE Rc(bme280_update_bits(m, BME280_REG_CTRL_MEAS, 3, U8(mode)))

\* The default settings bme280_init stores before it configures the device.
DefaultSettings ==
    [osr_t |-> BME280_OSRS_X1, osr_p |-> BME280_OSRS_X1,
     osr_h |-> BME280_OSRS_X1, filter |-> BME280_FILTER_OFF,
     standby |-> BME280_STANDBY_1000_MS, mode |-> BME280_SLEEP_MODE]

\* bme280_init from the default-settings block on.
init_defaults(m) ==
    LET Standby(s) ==
            IF s.rc # BME280_OK THEN s
            ELSE bme280_set_mode(s, BME280_SLEEP_MODE)
        Filter(f) ==
            IF f.rc # BME280_OK THEN f
            ELSE Standby(bme280_set_standby(f, f.dev.settings.standby))
        Osr(o) ==
            IF o.rc # BME280_OK THEN o
            ELSE Filter(bme280_set_filter(o, o.dev.settings.filter))
        Defaults(d) ==
            Osr(bme280_set_oversampling(d, d.dev.settings.osr_t,
                                        d.dev.settings.osr_p,
                                        d.dev.settings.osr_h))
    IN Defaults([m EXCEPT !.dev.settings = DefaultSettings])

\* bme280_init loading the calibration before the soft reset.
bme280_init_calib_first(m, bus, i2c_addr) ==
    LET Reset(s) == IF s.rc # BME280_OK THEN s ELSE init_defaults(s)
        Calib(c) == IF c.rc # BME280_OK THEN c ELSE Reset(bme280_soft_reset(c))
        Id(i) ==
            IF i.rc # BME280_OK THEN i
            ELSE IF i.val[1] # BME280_CHIP_ID
                 THEN [i EXCEPT !.rc = BME280_E_CHIP_ID_MISMATCH]
                 ELSE Calib(bme280_read_calibration(i))
    IN Id(bme280_read_chip_id([m EXCEPT !.dev.bus = bus,
                                        !.dev.i2c_addr = i2c_addr,
                                        !.dev.t_fine = 0,
                                        !.dev.calib_loaded = FALSE]))

\* bme280_init comparing the identity only after the soft reset.
bme280_init_late_id_check(m, bus, i2c_addr) ==
    LET Calib(c) == IF c.rc # BME280_OK THEN c ELSE init_defaults(c)
        Reset(s, id) ==
            IF s.rc # BME280_OK THEN s
            ELSE IF id # BME280_CHIP_ID
                 THEN [s EXCEPT !.rc = BME280_E_CHIP_ID_MISMATCH]
                 ELSE Calib(bme280_read_calibration(s))
        Id(i) ==
            IF i.rc # BME280_OK THEN i
            ELSE Reset(bme280_soft_reset(i), i.val[1])
    IN Id(bme280_read_chip_id([m EXCEPT !.dev.bus = bus,
                                        !.dev.i2c_addr = i2c_addr,
                                        !.dev.t_fine = 0,
                                        !.dev.calib_loaded = FALSE]))

bme280_init(m, bus, i2c_addr) ==
    LET Calib(c) == IF c.rc # BME280_OK THEN c ELSE init_defaults(c)
        Reset(s) ==
            IF s.rc # BME280_OK THEN s ELSE Calib(bme280_read_calibration(s))
        Id(i) ==
            IF i.rc # BME280_OK THEN i
            ELSE IF i.val[1] # BME280_CHIP_ID
                 THEN [i EXCEPT !.rc = BME280_E_CHIP_ID_MISMATCH]
                 ELSE Reset(bme280_soft_reset(i))
    IN Id(bme280_read_chip_id([m EXCEPT !.dev.bus = bus,
                                        !.dev.i2c_addr = i2c_addr,
                                        !.dev.t_fine = 0,
                                        !.dev.calib_loaded = FALSE]))

\* ---- src/BME280.c: acquisition and compensation -------------------------
\* bme280_read_raw taking the third pressure byte whole.
bme280_read_raw_keep_xlsb(m) ==
    LET Buf(r) ==
            IF r.rc # BME280_OK THEN r
            ELSE [r EXCEPT
                    !.adc = [P |-> BitOr(BitOr(r.val[0 + 1] * 4096,
                                               r.val[1 + 1] * 16, 32),
                                         r.val[2 + 1], 32),
                             T |-> BitOr(BitOr(r.val[3 + 1] * 4096,
                                               r.val[4 + 1] * 16, 32),
                                         r.val[5 + 1] \div 16, 32),
                             H |-> BitOr(r.val[6 + 1] * 256,
                                         r.val[7 + 1], 32)],
                    !.rc = BME280_OK]
    IN Buf(bme280_read_buf(m, BME280_REG_PRESS_MSB, RAW_LEN))

\* bme280_read_raw; the three counts are left in m.adc.
bme280_read_raw(m) ==
    LET Buf(r) ==
            IF r.rc # BME280_OK THEN r
            ELSE [r EXCEPT
                    !.adc = [P |-> BitOr(BitOr(r.val[0 + 1] * 4096,
                                               r.val[1 + 1] * 16, 32),
                                         r.val[2 + 1] \div 16, 32),
                             T |-> BitOr(BitOr(r.val[3 + 1] * 4096,
                                               r.val[4 + 1] * 16, 32),
                                         r.val[5 + 1] \div 16, 32),
                             H |-> BitOr(r.val[6 + 1] * 256,
                                         r.val[7 + 1], 32)],
                    !.rc = BME280_OK]
    IN Buf(bme280_read_buf(m, BME280_REG_PRESS_MSB, RAW_LEN))

\* A float result is kept exact, as the integer the code converts and the
\* constant it divides by.  The numerator of a pressure is an int64_t.
Flt(num, den) == [num |-> num, den |-> den]

\* return 0.0f
FltZero == Flt(0, 1)

\* bme280_compensate_temperature adding var1 + var2 to the t_fine it finds.
bme280_compensate_temperature_accumulate(m, adc_T) ==
    LET c == m.dev.calib
        TFine(t_fine) ==
            [m EXCEPT !.dev.t_fine = t_fine,
                      !.f = Flt(Add32(Mul32(t_fine, 5), 128), 256 * 100)]
        Var2(d) == Shr(Mul32(Shr(Mul32(d, d), 12), c.dig_T3), 14)
        Var1(d) == Shr(Mul32(d, c.dig_T2), 11)
    IN IF ~m.dev.calib_loaded THEN [m EXCEPT !.f = FltZero]
       ELSE TFine(Add32(m.dev.t_fine,
                        Add32(Var1(Sub32(Shr(adc_T, 3), Shl32(c.dig_T1, 1))),
                              Var2(Sub32(Shr(adc_T, 4), c.dig_T1)))))

\* bme280_compensate_temperature without the calib_loaded test.
bme280_compensate_temperature_unchecked(m, adc_T) ==
    LET c == m.dev.calib
        TFine(t_fine) ==
            [m EXCEPT !.dev.t_fine = t_fine,
                      !.f = Flt(Add32(Mul32(t_fine, 5), 128), 256 * 100)]
        Var2(d) == Shr(Mul32(Shr(Mul32(d, d), 12), c.dig_T3), 14)
        Var1(d) == Shr(Mul32(d, c.dig_T2), 11)
    IN TFine(Add32(Var1(Sub32(Shr(adc_T, 3), Shl32(c.dig_T1, 1))),
                   Var2(Sub32(Shr(adc_T, 4), c.dig_T1))))

\* bme280_compensate_temperature; the returned float is left in m.f.
bme280_compensate_temperature(m, adc_T) ==
    LET c == m.dev.calib
        TFine(t_fine) ==
            [m EXCEPT !.dev.t_fine = t_fine,
                      !.f = Flt(Add32(Mul32(t_fine, 5), 128), 256 * 100)]
        Var2(d) == Shr(Mul32(Shr(Mul32(d, d), 12), c.dig_T3), 14)
        Var1(d) == Shr(Mul32(d, c.dig_T2), 11)
    IN IF ~m.dev.calib_loaded THEN [m EXCEPT !.f = FltZero]
       ELSE TFine(Add32(Var1(Sub32(Shr(adc_T, 3), Shl32(c.dig_T1, 1))),
                        Var2(Sub32(Shr(adc_T, 4), c.dig_T1))))

\* The second assignment of var1 in bme280_compensate_pressure, the
\* divisor of p: (((1 << 47) + var1) * dig_P1) >> 33 for the var1 that
\* the polynomial in d = t_fine - 128000 yields.
pressure_var1(c, d) ==
    LET V1b(v) == IShr(IMul(IAdd(IShl(I64(1), 47), v), I64(c.dig_P1)), 33)
    IN V1b(IAdd(IShr(IMul(IMul(d, d), I64(c.dig_P3)), 8),
                IShl(IMul(d, I64(c.dig_P2)), 12)))

\* bme280_compensate_pressure returning early only for dig_P1 = 0.
bme280_compensate_pressure_p1_guard(m, adc_P) ==
    LET c == m.dev.calib
        P3(p, v1, v2) ==
            IAdd(IShr(IAdd(IAdd(p, v1), v2), 8), IShl(I64(c.dig_P7), 4))
        P2(p) ==
            P3(p,
               IShr(IMul(IMul(I64(c.dig_P9), IShr(p, 13)), IShr(p, 13)), 25),
               IShr(IMul(I64(c.dig_P8), p), 19))
        Div(var1, var2) ==
            IF c.dig_P1 = 0 THEN [m EXCEPT !.f = FltZero]
            ELSE [m EXCEPT !.f =
                    Flt(P2(IDiv(IMul(ISub(IShl(I64(1048576 - adc_P), 31),
                                          var2),
                                     I64(3125)),
                                var1)),
                        256)]
        V2c(v) == IAdd(v, IShl(I64(c.dig_P4), 35))
        V2b(v, var1) == V2c(IAdd(v, IShl(IMul(var1, I64(c.dig_P5)), 17)))
        Var(var1) ==
            Div(pressure_var1(c, var1),
                V2b(IMul(IMul(var1, var1), I64(c.dig_P6)), var1))
    IN IF ~m.dev.calib_loaded THEN [m EXCEPT !.f = FltZero]
       ELSE Var(ISub(I64(m.dev.t_fine), I64(128000)))

\* bme280_compensate_pressure
bme280_compensate_pressure(m, adc_P) ==
    LET c == m.dev.calib
        \* the statements after p = 1048576 - adc_P
        P3(p, v1, v2) ==
            IAdd(IShr(IAdd(IAdd(p, v1), v2), 8), IShl(I64(c.dig_P7), 4))
        P2(p) ==
            P3(p,
               IShr(IMul(IMul(I64(c.dig_P9), IShr(p, 13)), IShr(p, 13)), 25),
               IShr(IMul(I64(c.dig_P8), p), 19))
        \* the statements after the second assignment of var1
        Div(var1, var2) ==
            IF IIsZero(var1) THEN [m EXCEPT !.f = FltZero]
            ELSE [m EXCEPT !.f =
                    Flt(P2(IDiv(IMul(ISub(IShl(I64(1048576 - adc_P), 31),
                                          var2),
                                     I64(3125)),
                                var1)),
                        256)]
        V2c(v) == IAdd(v, IShl(I64(c.dig_P4), 35))
        V2b(v, var1) == V2c(IAdd(v, IShl(IMul(var1, I64(c.dig_P5)), 17)))
        Var(var1) ==
            Div(pressure_var1(c, var1),
                V2b(IMul(IMul(var1, var1), I64(c.dig_P6)), var1))
    IN IF ~m.dev.calib_loaded THEN [m EXCEPT !.f = FltZero]
       ELSE Var(ISub(I64(m.dev.t_fine), I64(128000)))

\* min(max(x, lo), hi)
Clamp(x, lo, hi) == IF x < lo THEN lo ELSE IF x > hi THEN hi ELSE x

\* v_x1_u32r of bme280_compensate_humidity before the two integer clamps.
humidity_v_x1(c, t_fine, adc_H) ==
    LET V2(v) ==
            Sub32(v, Shr(Mul32(Shr(Mul32(Shr(v, 15), Shr(v, 15)), 7),
                               c.dig_H1), 4))
        V1(x) ==
            V2(Mul32(
                 Shr(Add32(Sub32(Sub32(Shl32(adc_H, 14), Shl32(c.dig_H4, 20)),
                                 Mul32(c.dig_H5, x)),
                           16384), 15),
                 Shr(Add32(Mul32(Add32(Shr(Mul32(Shr(Mul32(x, c.dig_H6), 10),
                                                 Add32(Shr(Mul32(x, c.dig_H3),
                                                           11),
                                                       32768)),
                                           10),
                                       2097152),
                                 c.dig_H2),
                           8192), 14)))
    IN V1(Sub32(t_fine, 76800))

\* bme280_compensate_humidity taking the cross-term as 0.
bme280_compensate_humidity_no_cross_term(m, adc_H) ==
    LET H(v) == [m EXCEPT !.f = Flt(Clamp(Shr(v, 12), 0, 100 * 1024), 1024)]
        V3(v) == H(Clamp(v, 0, 419430400))
    IN IF ~m.dev.calib_loaded THEN [m EXCEPT !.f = FltZero]
       ELSE V3(humidity_v_x1(m.dev.calib, 0, adc_H))

\* bme280_compensate_humidity without any clamp.
bme280_compensate_humidity_unclamped(m, adc_H) ==
    LET H(v) == [m EXCEPT !.f = Flt(Shr(v, 12), 1024)]
    IN IF ~m.dev.calib_loaded THEN [m EXCEPT !.f = FltZero]
       ELSE H(humidity_v_x1(m.dev.calib, m.dev.t_fine, adc_H))

\* bme280_compensate_humidity
bme280_compensate_humidity(m, adc_H) ==
    LET \* h = (v >> 12) / 1024.0f, limited to 0 .. 100
        H(v) == [m EXCEPT !.f = Flt(Clamp(Shr(v, 12), 0, 100 * 1024), 1024)]
        V3(v) == H(Clamp(v, 0, 419430400))
    IN IF ~m.dev.calib_loaded THEN [m EXCEPT !.f = FltZero]
       ELSE V3(humidity_v_x1(m.dev.calib, m.dev.t_fine, adc_H))

\* The forced-mode wait polling again after a failed status read.
RECURSIVE meas_poll_retry(_, _)
meas_poll_retry(m, i) ==
    LET St(r) ==
            IF r.rc # BME280_OK
            THEN meas_poll_retry(bme280_delay(r, MEAS_DELAY_MS), i + 1)
            ELSE IF BitAnd(r.val[1], BME280_STATUS_MEASURING, 8) = 0
                 THEN [r EXCEPT !.rc = BME280_OK]
                 ELSE meas_poll_retry(bme280_delay(r, MEAS_DELAY_MS), i + 1)
    IN IF i >= MEAS_POLLS THEN [m EXCEPT !.rc = BME280_OK]
       ELSE St(bme280_read_u8(m, BME280_REG_STATUS))

\* The forced-mode wait with the loop bound tested by i <= 50.
RECURSIVE meas_poll_off_by_one(_, _)
meas_poll_off_by_one(m, i) ==
    LET St(r) ==
            IF r.rc # BME280_OK THEN r
            ELSE IF BitAnd(r.val[1], BME280_STATUS_MEASURING, 8) = 0
                 THEN [r EXCEPT !.rc = BME280_OK]
                 ELSE meas_poll_off_by_one(bme280_delay(r, MEAS_DELAY_MS),
                                           i + 1)
    IN IF i > MEAS_POLLS THEN [m EXCEPT !.rc = BME280_OK]
       ELSE St(bme280_read_u8(m, BME280_REG_STATUS))

\* The forced-mode wait polling only where delay_ms is set.
RECURSIVE meas_poll_timed(_, _)
meas_poll_timed(m, i) ==
    LET St(r) ==
            IF r.rc # BME280_OK THEN r
            ELSE IF BitAnd(r.val[1], BME280_STATUS_MEASURING, 8) = 0
                 THEN [r EXCEPT !.rc = BME280_OK]
                 ELSE meas_poll_timed(bme280_delay(r, MEAS_DELAY_MS), i + 1)
    IN IF i >= MEAS_POLLS \/ ~m.dev.bus.delay_ms
       THEN [m EXCEPT !.rc = BME280_OK]
       ELSE St(bme280_read_u8(m, BME280_REG_STATUS))

\* The forced-mode wait of bme280_read_measurement, from iteration i on.
RECURSIVE meas_poll(_, _)
meas_poll(m, i) ==
    LET St(r) ==
            IF r.rc # BME280_OK THEN r
            ELSE IF BitAnd(r.val[1], BME280_STATUS_MEASURING, 8) = 0
                 THEN [r EXCEPT !.rc = BME280_OK]
                 ELSE meas_poll(bme280_delay(r, MEAS_DELAY_MS), i + 1)
    IN IF i >= MEAS_POLLS THEN [m EXCEPT !.rc = BME280_OK]
       ELSE St(bme280_read_u8(m, BME280_REG_STATUS))

\* bme280_read_measurement compensating pressure and humidity before
\* temperature.
bme280_read_measurement_pressure_first(m) ==
    LET Temp(t, p, h) ==
            [t EXCEPT !.out = <<[temperature_c |-> t.f, pressure_pa |-> p,
                                 humidity_rh |-> h]>>,
                      !.rc = BME280_OK]
        Hum(h, p) == Temp(bme280_compensate_temperature(h, h.adc.T), p, h.f)
        Press(p) == Hum(bme280_compensate_humidity(p, p.adc.H), p.f)
        Raw(r) ==
            IF r.rc # BME280_OK THEN r
            ELSE Press(bme280_compensate_pressure(r, r.adc.P))
        Wait(w) == IF w.rc # BME280_OK THEN w ELSE Raw(bme280_read_raw(w))
        Trigger(s) == IF s.rc # BME280_OK THEN s ELSE Wait(meas_poll(s, 0))
    IN IF m.dev.settings.mode = BME280_FORCED_MODE
       THEN Trigger(bme280_set_mode(m, BME280_FORCED_MODE))
       ELSE Raw(bme280_read_raw(m))

\* bme280_read_measurement waiting for the conversion without the
\* bme280_set_mode call that starts it.
bme280_read_measurement_no_trigger(m) ==
    LET Hum(h, t, p) ==
            [h EXCEPT !.out = <<[temperature_c |-> t, pressure_pa |-> p,
                                 humidity_rh |-> h.f]>>,
                      !.rc = BME280_OK]
        Press(p, t) == Hum(bme280_compensate_humidity(p, p.adc.H), t, p.f)
        Temp(t) == Press(bme280_compensate_pressure(t, t.adc.P), t.f)
        Raw(r) ==
            IF r.rc # BME280_OK THEN r
            ELSE Temp(bme280_compensate_temperature(r, r.adc.T))
        Wait(w) == IF w.rc # BME280_OK THEN w ELSE Raw(bme280_read_raw(w))
    IN IF m.dev.settings.mode = BME280_FORCED_MODE
       THEN Wait(meas_poll(m, 0))
       ELSE Raw(bme280_read_raw(m))

\* bme280_read_measurement triggering and waiting in every mode.
bme280_read_measurement_always_trigger(m) ==
    LET Hum(h, t, p) ==
            [h EXCEPT !.out = <<[temperature_c |-> t, pressure_pa |-> p,
                                 humidity_rh |-> h.f]>>,
                      !.rc = BME280_OK]
        Press(p, t) == Hum(bme280_compensate_humidity(p, p.adc.H), t, p.f)
        Temp(t) == Press(bme280_compensate_pressure(t, t.adc.P), t.f)
        Raw(r) ==
            IF r.rc # BME280_OK THEN r
            ELSE Temp(bme280_compensate_temperature(r, r.adc.T))
        Wait(w) == IF w.rc # BME280_OK THEN w ELSE Raw(bme280_read_raw(w))
        Trigger(s) == IF s.rc # BME280_OK THEN s ELSE Wait(meas_poll(s, 0))
    IN Trigger(bme280_set_mode(m, BME280_FORCED_MODE))

\* bme280_read_measurement clearing the caller's reading when the burst read
\* fails.
bme280_read_measurement_clear_on_error(m) ==
    LET Hum(h, t, p) ==
            [h EXCEPT !.out = <<[temperature_c |-> t, pressure_pa |-> p,
                                 humidity_rh |-> h.f]>>,
                      !.rc = BME280_OK]
        Press(p, t) == Hum(bme280_compensate_humidity(p, p.adc.H), t, p.f)
        Temp(t) == Press(bme280_compensate_pressure(t, t.adc.P), t.f)
        Raw(r) ==
            IF r.rc # BME280_OK
            THEN [r EXCEPT !.out = <<[temperature_c |-> FltZero,
                                      pressure_pa |-> FltZero,
                                      humidity_rh |-> FltZero]>>]
            ELSE Temp(bme280_compensate_temperature(r, r.adc.T))
        Wait(w) == IF w.rc # BME280_OK THEN w ELSE Raw(bme280_read_raw(w))
        Trigger(s) == IF s.rc # BME280_OK THEN s ELSE Wait(meas_poll(s, 0))
    IN IF m.dev.settings.mode = BME280_FORCED_MODE
       THEN Trigger(bme280_set_mode(m, BME280_FORCED_MODE))
       ELSE Raw(bme280_read_raw(m))

\* bme280_read_measurement; the caller's reading is m.out, <<>> while the
\* call has written nothing to it.
bme280_read_measurement(m) ==
    LET Hum(h, t, p) ==
            [h EXCEPT !.out = <<[temperature_c |-> t, pressure_pa |-> p,
                                 humidity_rh |-> h.f]>>,
                      !.rc = BME280_OK]
        Press(p, t) == Hum(bme280_compensate_humidity(p, p.adc.H), t, p.f)
        Temp(t) == Press(bme280_compensate_pressure(t, t.adc.P), t.f)
        Raw(r) ==
            IF r.rc # BME280_OK THEN r
            ELSE Temp(bme280_compensate_temperature(r, r.adc.T))
        Wait(w) == IF w.rc # BME280_OK THEN w ELSE Raw(bme280_read_raw(w))
        Trigger(s) == IF s.rc # BME280_OK THEN s ELSE Wait(meas_poll(s, 0))
    IN IF m.dev.settings.mode = BME280_FORCED_MODE
       THEN Trigger(bme280_set_mode(m, BME280_FORCED_MODE))
       ELSE Raw(bme280_read_raw(m))

\* ---- src/Sensor.h: constants ----------------------------------------------
SENSOR_TYPE_PRESSURE == 6

SENSOR_TYPE_RELATIVE_HUMIDITY == 12

SENSOR_TYPE_AMBIENT_TEMPERATURE == 13

\* sizeof(sensors_event_t): four int32_t, one uint64_t, a 16-byte union.
SIZEOF_EVENT == 40

\* ---- src/BME280.c: Sensor.h adapters -------------------------------------
\* A sensors_event_t nothing has been written to.
NoEvent ==
    [version |-> 0, sensor_id |-> 0, type |-> 0, timestamp |-> 0,
     value |-> FltZero]

\* The adapter's bme280_read_measurement retried once when it fails.
wrapper_read_retry(m, c) ==
    LET Again(r) ==
            IF r.rc # BME280_OK THEN bme280_read_measurement(r) ELSE r
    IN IF ~c.dev THEN [m EXCEPT !.rc = BME280_E_NULL_PTR]
       ELSE Again(bme280_read_measurement(m))

\* The bme280_read_measurement(c->dev, &r) of an adapter; c->dev may be NULL.
wrapper_read(m, c) ==
    IF ~c.dev THEN [m EXCEPT !.rc = BME280_E_NULL_PTR]
    ELSE bme280_read_measurement(m)

\* What get_event leaves: its return value and the caller's event.
Event(m, c, type, value) ==
    [m EXCEPT !.out = <<[ret |-> TRUE,
                         event |-> [version |-> SIZEOF_EVENT,
                                    sensor_id |-> c.sensor_id,
                                    type |-> type,
                                    timestamp |-> 0,
                                    value |-> value]]>>]

NoEventOut(m) == [m EXCEPT !.out = <<[ret |-> FALSE, event |-> NoEvent]>>]

\* The first four lines of each bme280__get_event_* function, the same in
\* the three: the tests of ctx and event, and the measurement.  A machine
\* that comes back without a reading stands for "return false".
get_event_read(m, ctx, event) ==
    IF ~ctx.set \/ ~event THEN m ELSE wrapper_read(m, ctx.c)

\* The rest of each function: the event it fills from reading r.out[1].
bme280__get_event_temp(r, c) ==
    Event(r, c, SENSOR_TYPE_AMBIENT_TEMPERATURE, r.out[1].temperature_c)

bme280__get_event_pressure(r, c) ==
    Event(r, c, SENSOR_TYPE_PRESSURE,
          [num |-> r.out[1].pressure_pa.num,
           den |-> r.out[1].pressure_pa.den * 100])

bme280__get_event_humidity(r, c) ==
    Event(r, c, SENSOR_TYPE_RELATIVE_HUMIDITY, r.out[1].humidity_rh)

\* A wrapper context and the interface pointing at it, before any make.
NoSensor ==
    [ctx |-> [set |-> FALSE,
              c |-> [dev |-> FALSE, sensor_id |-> 0, type |-> 0]],
     get_event |-> ""]

Made(dev, sensor_id, type, get_event) ==
    [ctx |-> [set |-> TRUE,
              c |-> [dev |-> dev, sensor_id |-> sensor_id, type |-> type]],
     get_event |-> get_event]

bme280_make_temperature_sensor(dev, sensor_id) ==
    Made(dev, sensor_id, SENSOR_TYPE_AMBIENT_TEMPERATURE, "temp")

bme280_make_pressure_sensor(dev, sensor_id) ==
    Made(dev, sensor_id, SENSOR_TYPE_PRESSURE, "pressure")

bme280_make_humidity_sensor(dev, sensor_id) ==
    Made(dev, sensor_id, SENSOR_TYPE_RELATIVE_HUMIDITY, "humidity")

\* ---- src/Sensor.h ----------------------------------------------------------
sensor_get_event(m, iface, event) ==
    LET c == iface.ctx.c
        Fill(r) ==
            CASE r.rc # BME280_OK \/ r.out = <<>> -> NoEventOut(r)
              [] iface.get_event = "temp" -> bme280__get_event_temp(r, c)
              [] iface.get_event = "pressure" ->
                   bme280__get_event_pressure(r, c)
              [] iface.get_event = "humidity" ->
                   bme280__get_event_humidity(r, c)
    IN IF iface.get_event = "" THEN NoEventOut(m)
       ELSE Fill(get_event_read(m, iface.ctx, event))

\* ---- state ---------------------------------------------------------------
VARIABLES
    dev,    \* the bme280_t context
    hw,     \* the device's register file
    op,     \* the driver function called last
    args,   \* its arguments
    rc,     \* its return code
    trace,  \* the bus callbacks it invoked, in order
    dev0,   \* the context when it was called
    hw0,    \* the register file when it was called
    nfaults, \* the bus transactions that have failed so far
    out,    \* what the last call wrote to its caller's out-parameters
    sensors,    \* the Sensor.h adapters made so far
    demo    \* the demo program (src/main.c): its threads and globals

vars ==
    <<dev, hw, op, args, rc, trace, dev0, hw0, nfaults, out, sensors, demo>>

\* ---- inputs --------------------------------------------------------------
\* Error codes a failing bus callback returns (any non-zero int).
BusErrs == {BME280_E_COMM, -7}

\* The bus handed to bme280_init, with the address it comes with: all three
\* callbacks present, as bme280_bus_from_i2c_device builds it.
BusChoices ==
    { [bus |-> [read |-> TRUE, write |-> TRUE, delay_ms |-> TRUE],
       addr |-> BME280_I2C_ADDR_SDO_LOW] }

\* The devices the driver may be attached to: the identity byte and the
\* contents of (ctrl_hum, ctrl_meas, config) before the driver first runs.
\* A BME280 at its power-on values, a BME280 and a BMP280 (identity 0x58)
\* left by an earlier user with bits set in and around every field:
\* ctrl_hum 0xFA, ctrl_meas 0x5B, config 0x4E.
Devices ==
    { [id |-> BME280_CHIP_ID, regs |-> <<0, 0, 0>>],
      [id |-> BME280_CHIP_ID, regs |-> <<250, 91, 78>>],
      [id |-> 88, regs |-> <<250, 91, 78>>] }

\* Calibration NVM: 0x88..0xA1 and 0xE1..0xE7.
CalImage1 ==
    <<112, 107, 67, 103, 24, 252, 125, 142, 67, 214, 208, 11, 39, 11,
      140, 0, 249, 255, 140, 60, 248, 198, 112, 23, 170, 75>>

CalImage2 == <<106, 1, 0, 20, 141, 128, 30>>

\* Data registers 0xF7..0xFE after a conversion: two samples that differ in
\* every count (pressure 415148 / 400000, temperature 519888 / 532000,
\* humidity 30281 / 28000), with bits set in the unused low nibbles too.
RawImage1 == <<101, 90, 192, 126, 237, 0, 118, 73>>

RawImage2 == <<97, 168, 11, 129, 226, 7, 109, 96>>

RawImages == {RawImage1, RawImage2}

\* Status behaviours during bme280_read_measurement: idle, measuring on the
\* first 2 status reads, measuring on more reads than the driver polls.
MeasPlans ==
    {[stv |-> 0, stk |-> 0]}
      \cup {[stv |-> BME280_STATUS_MEASURING, stk |-> k] : k \in {2, MaxMeasBusy}}

\* Raw counts handed to direct calls of the compensation functions: for
\* pressure and humidity a mid-range count and the two ends of the range.
AdcTArgs == {519888, 532000}

AdcPArgs == {0, 415148, 1048575}

AdcHArgs == {0, 30281, 65535}

\* Status behaviours of the device during one call: idle, or a status byte
\* shown on the first stk status reads.
StatusPlans ==
    {[stv |-> 0, stk |-> 0]}
      \cup {[stv |-> v, stk |-> k] :
              v \in {BME280_STATUS_IM_UPDATE, BME280_STATUS_MEASURING},
              k \in {2, MaxBusy}}

Idle == [stv |-> 0, stk |-> 0]

\* Arguments of the setters, valid and out of range.
OsrArgs == { <<1, 1, 1>>, <<2, 5, 3>>, <<6, 1, 1>>, <<1, 6, 1>>, <<1, 1, 6>> }

FilterArgs == {0, 3, 5}

StandbyArgs == {5, 7, 8}

ModeArgs == {0, 1, 2, 3}

\* The faults a call of up to n transactions can meet: none, or the i-th
\* transaction failing with code e.
Faults(n) ==
    {[failAt |-> 0, err |-> BME280_OK]}
      \cup {[failAt |-> i, err |-> e] :
              i \in 1..(IF nfaults < MaxFaults THEN n ELSE 0), e \in BusErrs}

Env(f, p) == [failAt |-> f.failAt, err |-> f.err, stv |-> p.stv, stk |-> p.stk]

NoFault(p) == Env([failAt |-> 0, err |-> BME280_OK], p)

\* The machine at the entry of a call on driver instance d and device h.
StartOn(d, h, e) ==
    [dev |-> d, hw |-> h, trace |-> <<>>, ntx |-> 0, rc |-> BME280_OK,
     val |-> <<>>, nst |-> 0, env |-> e,
     adc |-> [T |-> 0, P |-> 0, H |-> 0], f |-> FltZero, out |-> <<>>]

\* The machine at the entry of a call.
Start(e) == StartOn(dev, hw, e)

\* The state a returned call leaves.
Finish(name, a, r) ==
    /\ dev' = r.dev
    /\ hw' = r.hw
    /\ op' = name
    /\ args' = a
    /\ rc' = r.rc
    /\ trace' = r.trace
    /\ dev0' = dev
    /\ hw0' = hw
    /\ nfaults' = nfaults + (IF r.env.failAt > 0 THEN 1 ELSE 0)
    /\ out' = r.out
    /\ UNCHANGED <<demo, sensors>>

\* No demo program is running: the driver is called directly.
NoDemo == [running |-> FALSE]

\* The (wrapper context, interface) pairs the application owns.
Slots == {1, 2}

NoSensors == [s \in Slots |-> NoSensor]

ZeroCalib ==
    [dig_T1 |-> 0, dig_T2 |-> 0, dig_T3 |-> 0,
     dig_P1 |-> 0, dig_P2 |-> 0, dig_P3 |-> 0, dig_P4 |-> 0, dig_P5 |-> 0,
     dig_P6 |-> 0, dig_P7 |-> 0, dig_P8 |-> 0, dig_P9 |-> 0,
     dig_H1 |-> 0, dig_H2 |-> 0, dig_H3 |-> 0, dig_H4 |-> 0, dig_H5 |-> 0,
     dig_H6 |-> 0]

\* A zero-initialised context (static bme280_t), before any bme280_init.
ZeroDev ==
    [bus |-> [read |-> FALSE, write |-> FALSE, delay_ms |-> FALSE],
     i2c_addr |-> 0,
     calib |-> ZeroCalib,
     settings |-> [osr_t |-> 0, osr_p |-> 0, osr_h |-> 0, filter |-> 0,
                   standby |-> 0, mode |-> 0],
     t_fine |-> 0,
     calib_loaded |-> FALSE]

Init ==
    /\ dev = ZeroDev
    /\ \E d \in Devices :
          hw = [id |-> d.id, ctrl_hum |-> d.regs[1], ctrl_meas |-> d.regs[2],
                config |-> d.regs[3], cal1 |-> CalImage1, cal2 |-> CalImage2,
                raw |-> RawImage1]
    /\ nfaults = 0
    /\ op = "none"
    /\ args = <<>>
    /\ rc = BME280_OK
    /\ trace = <<>>
    /\ dev0 = dev
    /\ hw0 = hw
    /\ out = <<>>
    /\ demo = NoDemo
    /\ sensors = NoSensors

\* ---- actions: one per public driver function ----------------------------
\* A call starts when no call's result is pending (the driver is not
\* reentrant), runs to its return, and leaves its record in op, args, rc,
\* trace, dev0 and hw0.
InitWith(B) ==
    /\ op = "none"
    /\ \E b \in B, p \in StatusPlans :
         LET n == bme280_init(Start(NoFault(p)), b.bus, b.addr).ntx
         IN \E f \in Faults(n) :
              Finish("init", <<b.addr>>,
                     bme280_init(Start(Env(f, p)), b.bus, b.addr))

InitCall == InitWith(BusChoices)

SoftReset ==
    /\ op = "none"
    /\ \E p \in StatusPlans :
         LET n == bme280_soft_reset(Start(NoFault(p))).ntx
         IN \E f \in Faults(n) :
              Finish("soft_reset", <<>>, bme280_soft_reset(Start(Env(f, p))))

ReadChipId ==
    /\ op = "none"
    /\ LET n == bme280_read_chip_id(Start(NoFault(Idle))).ntx
       IN \E f \in Faults(n) :
            Finish("read_chip_id", <<>>,
                   bme280_read_chip_id(Start(Env(f, Idle))))

ReadCalibration ==
    /\ op = "none"
    /\ LET n == bme280_read_calibration(Start(NoFault(Idle))).ntx
       IN \E f \in Faults(n) :
            Finish("read_calibration", <<>>,
                   bme280_read_calibration(Start(Env(f, Idle))))

SetOversampling ==
    /\ op = "none"
    /\ \E a \in OsrArgs :
         LET n == bme280_set_oversampling(Start(NoFault(Idle)),
                                          a[1], a[2], a[3]).ntx
         IN \E f \in Faults(n) :
              Finish("set_oversampling", a,
                     bme280_set_oversampling(Start(Env(f, Idle)),
                                             a[1], a[2], a[3]))

SetFilter ==
    /\ op = "none"
    /\ \E a \in FilterArgs :
         LET n == bme280_set_filter(Start(NoFault(Idle)), a).ntx
         IN \E f \in Faults(n) :
              Finish("set_filter", <<a>>,
                     bme280_set_filter(Start(Env(f, Idle)), a))

SetStandby ==
    /\ op = "none"
    /\ \E a \in StandbyArgs :
         LET n == bme280_set_standby(Start(NoFault(Idle)), a).ntx
         IN \E f \in Faults(n) :
              Finish("set_standby", <<a>>,
                     bme280_set_standby(Start(Env(f, Idle)), a))

SetMode ==
    /\ op = "none"
    /\ \E a \in ModeArgs :
         LET n == bme280_set_mode(Start(NoFault(Idle)), a).ntx
         IN \E f \in Faults(n) :
              Finish("set_mode", <<a>>,
                     bme280_set_mode(Start(Env(f, Idle)), a))

\* The caller has looked at the result; the driver is idle again.
Return ==
    /\ op # "none"
    /\ op' = "none"
    /\ args' = <<>>
    /\ rc' = BME280_OK
    /\ trace' = <<>>
    /\ dev0' = dev
    /\ hw0' = hw
    /\ out' = <<>>
    /\ UNCHANGED <<demo, dev, hw, nfaults, sensors>>

Next ==
    \/ InitCall
    \/ SoftReset
    \/ ReadChipId
    \/ ReadCalibration
    \/ SetOversampling
    \/ SetFilter
    \/ SetStandby
    \/ SetMode
    \/ Return

Spec == Init /\ [][Next]_vars

\* ---- acquisition and compensation calls --------------------------------
ReadRaw ==
    /\ op = "none"
    /\ LET Res(r) == [r EXCEPT !.out = IF r.rc = BME280_OK
                                       THEN <<r.adc.T, r.adc.P, r.adc.H>>
                                       ELSE <<>>]
           n == bme280_read_raw(Start(NoFault(Idle))).ntx
       IN \E f \in Faults(n) :
            Finish("read_raw", <<>>, Res(bme280_read_raw(Start(Env(f, Idle)))))

\* The float a compensation function returned is what the caller gets.
Returned(r) == [r EXCEPT !.out = <<r.f>>]

CompensateTemperature ==
    /\ op = "none"
    /\ \E a \in AdcTArgs :
         Finish("compensate_temperature", <<a>>,
                Returned(bme280_compensate_temperature(Start(NoFault(Idle)), a)))

CompensatePressure ==
    /\ op = "none"
    /\ \E a \in AdcPArgs :
         Finish("compensate_pressure", <<a>>,
                Returned(bme280_compensate_pressure(Start(NoFault(Idle)), a)))

CompensateHumidity ==
    /\ op = "none"
    /\ \E a \in AdcHArgs :
         Finish("compensate_humidity", <<a>>,
                Returned(bme280_compensate_humidity(Start(NoFault(Idle)), a)))

ReadMeasurement ==
    /\ op = "none"
    /\ \E p \in MeasPlans :
         LET n == bme280_read_measurement(Start(NoFault(p))).ntx
         IN \E f \in Faults(n) :
              Finish("read_measurement", <<>>,
                     bme280_read_measurement(Start(Env(f, p))))

\* The device finishes a conversion while no call is running: the data
\* registers take a new sample and a device in forced mode is back in sleep
\* mode (bits 1:0 of ctrl_meas read 00).  A sleeping device converts nothing.
Conversion ==
    /\ op = "none"
    /\ Field(hw.ctrl_meas, 0, 2) # BME280_SLEEP_MODE
    /\ \E r \in RawImages :
         hw' = [hw EXCEPT !.raw = r,
                          !.ctrl_meas =
                             IF Field(@, 0, 2) = BME280_NORMAL_MODE THEN @
                             ELSE @ - Field(@, 0, 2)]
    /\ hw' # hw
    /\ hw0' = hw'
    /\ UNCHANGED <<dev, op, args, rc, trace, dev0, nfaults, out, demo, sensors>>

\* The calls an application that takes readings makes after bring-up.
MeasNext ==
    \/ InitCall
    \/ SoftReset
    \/ SetMode
    \/ ReadRaw
    \/ CompensateTemperature
    \/ CompensatePressure
    \/ CompensateHumidity
    \/ ReadMeasurement
    \/ Conversion
    \/ Return

MeasSpec == Init /\ [][MeasNext]_vars

\* Every public function of the driver, in any order.
DriverNext ==
    \/ InitCall
    \/ SoftReset
    \/ ReadChipId
    \/ ReadCalibration
    \/ SetOversampling
    \/ SetFilter
    \/ SetStandby
    \/ SetMode
    \/ ReadRaw
    \/ CompensateTemperature
    \/ CompensatePressure
    \/ CompensateHumidity
    \/ ReadMeasurement
    \/ Conversion
    \/ Return

\* A genuine device holding a previous configuration.
DriverInit == Init /\ hw.id = BME280_CHIP_ID /\ hw.ctrl_meas # 0

DriverSpec == DriverInit /\ [][DriverNext]_vars

\* ---- decoding of the packed humidity constants --------------------------
\* The values of one byte and of one nibble.
Bytes == 0..255

Nibbles == 0..15

\* The bytes at 0xE1..0xE7 with every value of 0xE4 and of the low nibble of
\* 0xE5 (the 12 bits of dig_H4), and with them every value of 0xE6 and of
\* the high nibble of 0xE5 (the 12 bits of dig_H5): 0xE6 is the complement
\* of 0xE4 and the high nibble the complement of the low one, so that the
\* two fields differ in every image.
PackedImages ==
    { <<106, 1, 0, e4, 16 * (15 - lo) + lo, 255 - e4, 30>> :
        e4 \in Bytes, lo \in Nibbles }

\* A context bound to its bus whose calibration has not been read, as
\* bme280_init leaves it when the chip-id read fails, on a device with any
\* of the packed images.
DecodeInit ==
    /\ dev = [ZeroDev EXCEPT
                !.bus = [read |-> TRUE, write |-> TRUE, delay_ms |-> TRUE],
                !.i2c_addr = BME280_I2C_ADDR_SDO_LOW]
    /\ \E b \in PackedImages :
          hw = [id |-> BME280_CHIP_ID, ctrl_hum |-> 0, ctrl_meas |-> 0,
                config |-> 0, cal1 |-> CalImage1, cal2 |-> b,
                raw |-> RawImage1]
    /\ nfaults = 0
    /\ op = "none"
    /\ args = <<>>
    /\ rc = BME280_OK
    /\ trace = <<>>
    /\ dev0 = dev
    /\ hw0 = hw
    /\ out = <<>>
    /\ demo = NoDemo
    /\ sensors = NoSensors

DecodeNext ==
    \/ ReadCalibration
    \/ Return

DecodeSpec == DecodeInit /\ [][DecodeNext]_vars

\* ---- buses with callbacks left out ---------------------------------------
\* Every combination of the read, write and delay_ms callbacks being set or
\* NULL in the bus handed to bme280_init.
CapBuses ==
    { [bus |-> [read |-> r, write |-> w, delay_ms |-> d],
       addr |-> BME280_I2C_ADDR_SDO_LOW] : r, w, d \in BOOLEAN }

InitCap == InitWith(CapBuses)

\* A status-returning function called with dev == NULL: the test at its
\* first line returns BME280_E_NULL_PTR.
NullDevCall ==
    /\ op = "none"
    /\ Finish("null_dev", <<>>,
              [Start(NoFault(Idle)) EXCEPT !.rc = BME280_E_NULL_PTR])

CapNext ==
    \/ InitCap
    \/ SoftReset
    \/ ReadChipId
    \/ ReadCalibration
    \/ SetMode
    \/ ReadRaw
    \/ ReadMeasurement
    \/ NullDevCall
    \/ Return

CapSpec == Init /\ [][CapNext]_vars

\* ---- the Sensor.h adapters -----------------------------------------------
\* The identifier the application gives the sensor of pair s.
SensorId(s) == 280 + s

\* bme280_make_*_sensor on pair s, for the driver instance or with dev NULL.
MakeSensor ==
    /\ op = "none"
    /\ \E s \in Slots, d \in BOOLEAN :
         \E w \in {bme280_make_temperature_sensor(d, SensorId(s)),
                   bme280_make_pressure_sensor(d, SensorId(s)),
                   bme280_make_humidity_sensor(d, SensorId(s))} :
           /\ sensors[s] # w
           /\ sensors' = [sensors EXCEPT ![s] = w]
    /\ UNCHANGED <<dev, hw, op, args, rc, trace, dev0, hw0, nfaults, out, demo>>

\* sensor_get_event on pair s, with an event to fill or with event NULL.
GetEvent ==
    /\ op = "none"
    /\ \E s \in Slots, e \in BOOLEAN, p \in MeasPlans :
         LET n == sensor_get_event(Start(NoFault(p)), sensors[s], e).ntx
         IN \E f \in Faults(n) :
              Finish("get_event", <<s, IF e THEN 1 ELSE 0>>,
                     sensor_get_event(Start(Env(f, p)), sensors[s], e))

SensorNext ==
    \/ SetMode
    \/ MakeSensor
    \/ GetEvent
    \/ Conversion
    \/ Return

\* The driver brought up on a genuine device with the complete bus.
BroughtUp(h) ==
    bme280_init(StartOn(ZeroDev, h, NoFault(Idle)),
                [read |-> TRUE, write |-> TRUE, delay_ms |-> TRUE],
                BME280_I2C_ADDR_SDO_LOW)

SensorInit ==
    /\ \E r \in RawImages :
         LET Up(u) == dev = u.dev /\ hw = u.hw
         IN Up(BroughtUp([id |-> BME280_CHIP_ID, ctrl_hum |-> 0,
                          ctrl_meas |-> 0, config |-> 0,
                          cal1 |-> CalImage1, cal2 |-> CalImage2,
                          raw |-> r]))
    /\ nfaults = 0
    /\ op = "none"
    /\ args = <<>>
    /\ rc = BME280_OK
    /\ trace = <<>>
    /\ dev0 = dev
    /\ hw0 = hw
    /\ out = <<>>
    /\ demo = NoDemo
    /\ sensors = NoSensors

SensorSpec == SensorInit /\ [][SensorNext]_vars

\* ---- configuration of a driver that was brought up -------------------------
\* The driver right after a successful bme280_init, on each device that
\* answers with the chip identity.
SetterInit ==
    /\ \E d \in Devices :
         /\ d.id = BME280_CHIP_ID
         /\ LET Up(u) == u.rc = BME280_OK /\ dev = u.dev /\ hw = u.hw
            IN Up(BroughtUp([id |-> d.id, ctrl_hum |-> d.regs[1],
                             ctrl_meas |-> d.regs[2], config |-> d.regs[3],
                             cal1 |-> CalImage1, cal2 |-> CalImage2,
                             raw |-> RawImage1]))
    /\ nfaults = 0
    /\ op = "none"
    /\ args = <<>>
    /\ rc = BME280_OK
    /\ trace = <<>>
    /\ dev0 = dev
    /\ hw0 = hw
    /\ out = <<>>
    /\ demo = NoDemo
    /\ sensors = NoSensors

\* Setter calls only, in any order and with any outcome.
SetterNext ==
    \/ SetOversampling
    \/ SetFilter
    \/ SetStandby
    \/ SetMode
    \/ Return

SetterSpec == SetterInit /\ [][SetterNext]_vars

\* ---- assembly of the raw counts -----------------------------------------
\* A context bound to its bus, as bme280_init leaves it when the chip-id
\* read fails: nothing but the bus and the address is set.
BoundDev ==
    [ZeroDev EXCEPT
       !.bus = [read |-> TRUE, write |-> TRUE, delay_ms |-> TRUE],
       !.i2c_addr = BME280_I2C_ADDR_SDO_LOW]

\* The start of a session on context d and device h.
Session(d, h) ==
    /\ dev = d
    /\ hw = h
    /\ nfaults = 0
    /\ op = "none"
    /\ args = <<>>
    /\ rc = BME280_OK
    /\ trace = <<>>
    /\ dev0 = dev
    /\ hw0 = hw
    /\ out = <<>>
    /\ demo = NoDemo
    /\ sensors = NoSensors

\* A genuine device in sleep with calibration images c1, c2 and sample r.
Device(c1, c2, r) ==
    [id |-> BME280_CHIP_ID, ctrl_hum |-> 0, ctrl_meas |-> 0, config |-> 0,
     cal1 |-> c1, cal2 |-> c2, raw |-> r]

\* Byte values around every nibble and sign boundary.
EdgeBytes == {0, 1, 15, 16, 17, 127, 128, 129, 239, 240, 254, 255}

\* The data registers 0xF7..0xFE: every combination of edge values in the
\* three pressure bytes, their complements in the temperature bytes, and
\* two of them in the humidity bytes.
BurstImages ==
    { <<a, b, c, 255 - a, 255 - b, 255 - c, c, a>> :
        a \in EdgeBytes, b \in EdgeBytes, c \in EdgeBytes }

RawInit ==
    \E r \in BurstImages : Session(BoundDev, Device(CalImage1, CalImage2, r))

RawNext ==
    \/ ReadRaw
    \/ Return

RawSpec == RawInit /\ [][RawNext]_vars

\* ---- compensation over calibration sets ---------------------------------
\* A second calibration: dig_T1 = 0, dig_T2 = 32290, dig_T3 = 7774,
\* dig_P1 = 1, dig_P2 = -32768, dig_H2 = 101 and every other constant 0.
\* The raw temperature 532000 gives t_fine = 1176548, for which
\* (1 << 47) + var1 is 28 << 27 and the divisor of the pressure is 0 with
\* dig_P1 # 0.
CalImageB1 ==
    <<0, 0, 34, 126, 94, 30, 1, 0, 0, 128, 0, 0, 0, 0,
      0, 0, 0, 0, 0, 0, 0, 0, 0, 0, 0, 0>>

CalImageB2 == <<101, 0, 0, 0, 0, 0, 0>>

\* The calibrations a device may hold: the reference one, the reference
\* one with dig_P1 = 0, and the second one.
CalImages ==
    { <<CalImage1, CalImage2>>,
      <<[CalImage1 EXCEPT ![6 + 1] = 0, ![7 + 1] = 0], CalImage2>>,
      <<CalImageB1, CalImageB2>> }

CompInit ==
    \E c \in CalImages : Session(BoundDev, Device(c[1], c[2], RawImage1))

CompNext ==
    \/ ReadCalibration
    \/ CompensateTemperature
    \/ CompensatePressure
    \/ CompensateHumidity
    \/ Return

CompSpec == CompInit /\ [][CompNext]_vars

\* ---- src/main.c: the demo program ----------------------------------------
\* Update cycles of the API thread that are followed.
MaxCycles == 2

\* NAN, the value the demo publishes for "unavailable".
NaN == [num |-> 0, den |-> 0]

\* addrs[] of bme280_init_linux.
Addrs == <<BME280_I2C_ADDR_SDO_HIGH, BME280_I2C_ADDR_SDO_LOW>>

\* The bus bme280_init_try_addr builds.
DemoBus == [read |-> TRUE, write |-> TRUE, delay_ms |-> TRUE]

\* The functions of the driver the demo calls.
DriverCalls ==
    {"init", "set_oversampling", "set_filter", "set_standby", "set_mode",
     "read_measurement"}

\* The program when main has created its threads; the sensor answers at
\* address at (0: no sensor on the bus).
DemoStart(at) ==
    [running |-> TRUE,
     at |-> at,
     api |-> [pc |-> "top", busy |-> FALSE, i |-> 1, rc |-> BME280_OK,
              t |-> NaN, p |-> NaN, h |-> NaN,
              inc_ok |-> 0, inc_err |-> 0, last_is_bme |-> 0],
     gui |-> [pc |-> "idle", t |-> NaN, p |-> NaN, h |-> NaN, time_str |-> 0,
              last_is_bme |-> 0, bme_ok |-> 0, bme_err |-> 0],
     mutex |-> "",
     bme_tried |-> FALSE,
     bme_inited |-> 0,
     bme_addr |-> 0,
     fd |-> -1,
     current_data |-> [temperature |-> NaN, pressure |-> NaN,
                       humidity |-> NaN, time_str |-> 0],
     g_last_source_is_bme |-> 0,
     g_bme_ok |-> 0,
     g_bme_err |-> 0,
     labels |-> [temp |-> NaN, pressure |-> NaN, humidity |-> NaN,
                 time |-> 0, source |-> <<"">>],
     labelers |-> {},
     inflight |-> <<>>,
     tick |-> 0,
     cycles |-> 0,
     log |-> <<>>,
     nopen |-> 0,
     attempts |-> <<>>]

\* -- the API update thread: pure steps --
\* The thread moves on to the next address, or gives up after the last.
next_addr(d) ==
    IF d.api.i < Len(Addrs)
    THEN [d EXCEPT !.api.i = @ + 1, !.api.pc = "open"]
    ELSE [d EXCEPT !.api.pc = "tried"]

\* while(1) { if (!bme_tried) ...
api_top(d) ==
    [d EXCEPT !.api.pc = IF d.bme_tried THEN "cycle" ELSE "linux"]

\* bme280_init_linux: if (bme_is_inited()) return 0; for (i = 0; ...
bme280_init_linux(d) ==
    IF d.bme_inited # 0 THEN [d EXCEPT !.api.pc = "tried"]
    ELSE [d EXCEPT !.api.i = 1, !.api.pc = "open"]

\* i2c_device_open as bme280_init_try_addr calls it: i2c_device_clear, then
\* open() and the two ioctl calls.  ok: all three succeeded; otherwise no
\* descriptor was opened or the one opened was closed again, and fd is -1.
\* nopen counts the descriptors the process holds open, attempts the
\* addresses tried; the descriptor is named by the address it is bound to.
i2c_device_open(d, ok) ==
    LET c == [d EXCEPT !.fd = -1, !.attempts = Append(@, Addrs[d.api.i])]
    IN IF ok
       THEN [c EXCEPT !.fd = Addrs[d.api.i], !.nopen = @ + 1,
                      !.api.pc = "init"]
       ELSE next_addr(c)

\* A driver call begins.
driver_call(d, thread, fn) ==
    [d EXCEPT !.inflight = Append(@, [thread |-> thread, fn |-> fn])]

api_call(d) == [driver_call(d, "api", d.api.pc) EXCEPT !.api.busy = TRUE]

\* A driver call of the API thread returns rc; the thread goes on at pc.
api_return(d, r, pc) ==
    [d EXCEPT !.inflight = SelectSeq(@, LAMBDA c : c.thread # "api"),
              !.api.busy = FALSE,
              !.api.rc = r,
              !.api.pc = pc]

\* i2c_device_close forgetting the descriptor without close().
i2c_device_close_leak(d) == next_addr([d EXCEPT !.fd = -1])

\* i2c_device_close(&g_i2c_dev); return -1;
\* if (dev->fd >= 0) close(dev->fd); i2c_device_clear(dev);
i2c_device_close(d) ==
    next_addr([d EXCEPT !.nopen = IF d.fd >= 0 THEN @ - 1 ELSE @,
                        !.fd = -1])

\* bme_addr = addr; bme_inited = 1; under the mutex; return 0.
mark_inited(d) ==
    [d EXCEPT !.bme_addr = Addrs[d.api.i], !.bme_inited = 1,
              !.api.pc = "tried"]

\* bme_tried = 1;
api_tried(d) == [d EXCEPT !.bme_tried = TRUE, !.api.pc = "cycle"]

\* float t = NAN, ...; if (bme_is_inited()) ... else last_is_bme = 0;
api_cycle(d) ==
    [d EXCEPT !.api.t = NaN, !.api.p = NaN, !.api.h = NaN,
              !.api.inc_ok = 0, !.api.inc_err = 0, !.api.last_is_bme = 0,
              !.api.pc = IF d.bme_inited # 0 THEN "read_raw" ELSE "lock"]

\* The failure branch of api_update_thread keeping the values published by
\* the cycle before.
read_failed_keep_last(d) ==
    [d EXCEPT !.api.t = d.current_data.temperature,
              !.api.p = d.current_data.pressure,
              !.api.h = d.current_data.humidity,
              !.api.inc_err = 1, !.api.last_is_bme = 0, !.api.pc = "lock"]

\* The branch of api_update_thread taken when the demo's bme280_read_raw
\* returned non-zero.
read_failed(d) ==
    [d EXCEPT !.api.t = NaN, !.api.p = NaN, !.api.h = NaN,
              !.api.inc_err = 1, !.api.last_is_bme = 0, !.api.pc = "lock"]

\* The demo's bme280_read_raw: if (!bme_is_inited()) return -1;
demo_read_raw(d) ==
    IF d.bme_inited = 0 THEN read_failed(d)
    ELSE [d EXCEPT !.api.pc = "read_measurement"]

\* The demo's bme280_read_raw after bme280_read_measurement returned, and
\* the branch of api_update_thread that follows.
demo_read_done(d, r) ==
    IF r.rc # BME280_OK THEN read_failed(api_return(d, r.rc, "lock"))
    ELSE [api_return(d, r.rc, "lock") EXCEPT
            !.api.t = r.out[1].temperature_c,
            !.api.p = [num |-> r.out[1].pressure_pa.num,
                       den |-> r.out[1].pressure_pa.den * 100],
            !.api.h = r.out[1].humidity_rh,
            !.api.inc_ok = 1,
            !.api.last_is_bme = 1]

\* pthread_mutex_lock taking nothing.
mutex_lock_none(d, t) == d

\* pthread_mutex_lock / pthread_mutex_unlock by thread t.
mutex_lock(d, t) == [d EXCEPT !.mutex = t]

mutex_unlock(d) == [d EXCEPT !.mutex = ""]

\* current_data.temperature = t; ... time_str
api_publish_data(d) ==
    [d EXCEPT !.current_data = [temperature |-> d.api.t, pressure |-> d.api.p,
                                humidity |-> d.api.h,
                                time_str |-> d.cycles + 1],
              !.api.pc = "pub_flags"]

\* g_last_source_is_bme = last_is_bme; if (inc_ok) g_bme_ok++; ...
api_publish_flags(d) ==
    [d EXCEPT !.g_last_source_is_bme = d.api.last_is_bme,
              !.g_bme_ok = @ + d.api.inc_ok,
              !.g_bme_err = @ + d.api.inc_err,
              !.api.pc = "unlock"]

\* api_update_thread calling update_display_data itself after publishing, as
\* its header comment describes.
api_sleep_update_display(d) ==
    [d EXCEPT !.cycles = @ + 1, !.api.pc = "top",
              !.labels.temp = d.current_data.temperature,
              !.labels.pressure = d.current_data.pressure,
              !.labels.humidity = d.current_data.humidity,
              !.labels.time = d.current_data.time_str,
              !.labelers = @ \cup {"api"}]

\* What the shared variables hold: current_data, g_last_source_is_bme and
\* the two counters.
Shared(d) ==
    [temperature |-> d.current_data.temperature,
     pressure |-> d.current_data.pressure,
     humidity |-> d.current_data.humidity,
     time_str |-> d.current_data.time_str,
     last_is_bme |-> d.g_last_source_is_bme,
     bme_ok |-> d.g_bme_ok,
     bme_err |-> d.g_bme_err]

\* pthread_mutex_unlock at the end of the publication: the update cycle is
\* complete, and log keeps what it published.
api_unlock(d) ==
    [mutex_unlock(d) EXCEPT !.log = Append(@, Shared(d)),
                            !.api.pc = "sleep"]

\* sleep(SENSOR_REFRESH_SEC); and back to the top of the loop.
api_sleep(d) == [d EXCEPT !.cycles = @ + 1, !.api.pc = "top"]

\* -- the GUI thread (main): update_display_data, pure steps --
gui_snapshot_data(d) ==
    [d EXCEPT !.gui.t = d.current_data.temperature,
              !.gui.p = d.current_data.pressure,
              !.gui.h = d.current_data.humidity,
              !.gui.time_str = d.current_data.time_str,
              !.gui.pc = "snap_flags"]

gui_snapshot_flags(d) ==
    [d EXCEPT !.gui.last_is_bme = d.g_last_source_is_bme,
              !.gui.bme_ok = d.g_bme_ok,
              !.gui.bme_err = d.g_bme_err,
              !.gui.pc = "unlock"]

\* The four lv_label_set_text calls on the value labels.
gui_set_labels(d) ==
    [d EXCEPT !.labels.temp = d.gui.t,
              !.labels.pressure = d.gui.p,
              !.labels.humidity = d.gui.h,
              !.labels.time = d.gui.time_str,
              !.labelers = @ \cup {"gui"},
              !.gui.pc = "source"]

\* update_display_data polling the sensor itself for the source label.
gui_source_label_probe(d) ==
    [driver_call(d, "gui", "read_chip_id") EXCEPT
       !.labels.source = <<"BME280", d.gui.bme_ok, d.gui.bme_err>>,
       !.gui.pc = "idle"]

\* if (bme_is_inited() && last_is_bme_snapshot) ... the first test
gui_source_label(d) ==
    IF d.bme_inited # 0 /\ d.gui.last_is_bme # 0
    THEN [d EXCEPT !.labels.source = <<"BME280", d.gui.bme_ok, d.gui.bme_err>>,
                   !.labelers = @ \cup {"gui"},
                   !.gui.pc = "idle"]
    ELSE [d EXCEPT !.gui.pc = "source2"]

\* else if (bme_is_inited()) ... else ...
gui_source_label2(d) ==
    [d EXCEPT !.labels.source =
                 IF d.bme_inited # 0 THEN <<"read error", d.gui.bme_err>>
                 ELSE <<"unavailable">>,
              !.labelers = @ \cup {"gui"},
              !.gui.pc = "idle"]

\* -- actions --
DemoStep(d) ==
    /\ demo' = d
    /\ UNCHANGED <<dev, hw, op, args, rc, trace, dev0, hw0, nfaults, out,
                   sensors>>

\* A driver call of the demo returns with machine r.
DemoReturn(d, r, fault) ==
    /\ demo' = d
    /\ dev' = r.dev
    /\ hw' = r.hw
    /\ nfaults' = nfaults + (IF fault THEN 1 ELSE 0)
    /\ UNCHANGED <<op, args, rc, trace, dev0, hw0, out, sensors>>

Api(pc) == demo.running /\ demo.api.pc = pc

Gui(pc) == demo.running /\ demo.gui.pc = pc

MutexFree == demo.mutex = ""

\* Every transaction fails: nothing answers at the address.
Absent == [failAt |-> 1, err |-> BME280_E_COMM, stv |-> 0, stk |-> 0]

ApiTop == Api("top") /\ DemoStep(api_top(demo))

ApiInitLinux == Api("linux") /\ MutexFree /\ DemoStep(bme280_init_linux(demo))

ApiOpen == Api("open") /\ \E ok \in BOOLEAN : DemoStep(i2c_device_open(demo, ok))

ApiCall ==
    /\ demo.running
    /\ demo.api.pc \in DriverCalls
    /\ ~demo.api.busy
    /\ DemoStep(api_call(demo))

ApiInit ==
    /\ Api("init")
    /\ demo.api.busy
    /\ \E p \in StatusPlans :
         LET a == Addrs[demo.api.i]
             n == bme280_init(Start(NoFault(p)), DemoBus, a).ntx
             Ret(r) ==
                 DemoReturn(api_return(demo, r.rc,
                                       IF r.rc # BME280_OK THEN "close"
                                       ELSE "set_oversampling"),
                            r, demo.at = a /\ r.env.failAt > 0)
         IN \E e \in (IF demo.at = a THEN {Env(f, p) : f \in Faults(n)}
                      ELSE {Absent}) :
              Ret(bme280_init(Start(e), DemoBus, a))

ApiClose == Api("close") /\ DemoStep(i2c_device_close(demo))

ApiSetOversampling ==
    /\ Api("set_oversampling")
    /\ demo.api.busy
    /\ LET n == bme280_set_oversampling(Start(NoFault(Idle)), BME280_OSRS_X1,
                                        BME280_OSRS_X1, BME280_OSRS_X1).ntx
           Ret(r) == DemoReturn(api_return(demo, demo.api.rc, "set_filter"),
                                r, r.env.failAt > 0)
       IN \E f \in Faults(n) :
            Ret(bme280_set_oversampling(Start(Env(f, Idle)), BME280_OSRS_X1,
                                        BME280_OSRS_X1, BME280_OSRS_X1))

ApiSetFilter ==
    /\ Api("set_filter")
    /\ demo.api.busy
    /\ LET n == bme280_set_filter(Start(NoFault(Idle)), BME280_FILTER_OFF).ntx
           Ret(r) == DemoReturn(api_return(demo, demo.api.rc, "set_standby"),
                                r, r.env.failAt > 0)
       IN \E f \in Faults(n) :
            Ret(bme280_set_filter(Start(Env(f, Idle)), BME280_FILTER_OFF))

ApiSetStandby ==
    /\ Api("set_standby")
    /\ demo.api.busy
    /\ LET n == bme280_set_standby(Start(NoFault(Idle)),
                                   BME280_STANDBY_1000_MS).ntx
           Ret(r) == DemoReturn(api_return(demo, demo.api.rc, "set_mode"),
                                r, r.env.failAt > 0)
       IN \E f \in Faults(n) :
            Ret(bme280_set_standby(Start(Env(f, Idle)),
                                   BME280_STANDBY_1000_MS))

ApiSetMode ==
    /\ Api("set_mode")
    /\ demo.api.busy
    /\ LET n == bme280_set_mode(Start(NoFault(Idle)), BME280_NORMAL_MODE).ntx
           Ret(r) == DemoReturn(api_return(demo, demo.api.rc, "mark"),
                                r, r.env.failAt > 0)
       IN \E f \in Faults(n) :
            Ret(bme280_set_mode(Start(Env(f, Idle)), BME280_NORMAL_MODE))

ApiMark == Api("mark") /\ MutexFree /\ DemoStep(mark_inited(demo))

ApiTried == Api("tried") /\ DemoStep(api_tried(demo))

ApiCycle == Api("cycle") /\ MutexFree /\ DemoStep(api_cycle(demo))

ApiReadRaw == Api("read_raw") /\ MutexFree /\ DemoStep(demo_read_raw(demo))

ApiReadMeasurement ==
    /\ Api("read_measurement")
    /\ demo.api.busy
    /\ \E p \in MeasPlans :
         LET n == bme280_read_measurement(Start(NoFault(p))).ntx
             Ret(r) == DemoReturn(demo_read_done(demo, r), r,
                                  r.env.failAt > 0)
         IN \E f \in Faults(n) :
              Ret(bme280_read_measurement(Start(Env(f, p))))

ApiLock ==
    /\ Api("lock")
    /\ MutexFree
    /\ DemoStep([mutex_lock(demo, "api") EXCEPT !.api.pc = "pub_data"])

ApiPublishData == Api("pub_data") /\ DemoStep(api_publish_data(demo))

ApiPublishFlags == Api("pub_flags") /\ DemoStep(api_publish_flags(demo))

ApiUnlock == Api("unlock") /\ DemoStep(api_unlock(demo))

ApiSleep ==
    /\ Api("sleep")
    /\ demo.cycles < MaxCycles
    /\ DemoStep(api_sleep(demo))

\* lv_timer_handler runs update_display_timer_cb.
GuiTimer == Gui("idle") /\ DemoStep([demo EXCEPT !.gui.pc = "lock"])

GuiLock ==
    /\ Gui("lock")
    /\ MutexFree
    /\ DemoStep([mutex_lock(demo, "gui") EXCEPT !.gui.pc = "snap_data"])

GuiSnapshotData == Gui("snap_data") /\ DemoStep(gui_snapshot_data(demo))

GuiSnapshotFlags == Gui("snap_flags") /\ DemoStep(gui_snapshot_flags(demo))

GuiUnlock ==
    /\ Gui("unlock")
    /\ DemoStep([mutex_unlock(demo) EXCEPT !.gui.pc = "labels"])

GuiLabels == Gui("labels") /\ DemoStep(gui_set_labels(demo))

GuiSource == Gui("source") /\ MutexFree /\ DemoStep(gui_source_label(demo))

GuiSource2 == Gui("source2") /\ MutexFree /\ DemoStep(gui_source_label2(demo))

\* lvgl_tick_thread: lv_tick_inc(1); usleep(1000); the tick count modulo 2.
TickInc == demo.running /\ DemoStep([demo EXCEPT !.tick = 1 - @])

DemoInit ==
    /\ dev = ZeroDev
    /\ hw = Device(CalImage1, CalImage2, RawImage1)
    /\ \E at \in {0, BME280_I2C_ADDR_SDO_HIGH, BME280_I2C_ADDR_SDO_LOW} :
         demo = DemoStart(at)
    /\ nfaults = 0
    /\ op = "none"
    /\ args = <<>>
    /\ rc = BME280_OK
    /\ trace = <<>>
    /\ dev0 = dev
    /\ hw0 = hw
    /\ out = <<>>
    /\ sensors = NoSensors

DemoNext ==
    \/ ApiTop
    \/ ApiInitLinux
    \/ ApiOpen
    \/ ApiCall
    \/ ApiInit
    \/ ApiClose
    \/ ApiSetOversampling
    \/ ApiSetFilter
    \/ ApiSetStandby
    \/ ApiSetMode
    \/ ApiMark
    \/ ApiTried
    \/ ApiCycle
    \/ ApiReadRaw
    \/ ApiReadMeasurement
    \/ ApiLock
    \/ ApiPublishData
    \/ ApiPublishFlags
    \/ ApiUnlock
    \/ ApiSleep
    \/ GuiTimer
    \/ GuiLock
    \/ GuiSnapshotData
    \/ GuiSnapshotFlags
    \/ GuiUnlock
    \/ GuiLabels
    \/ GuiSource
    \/ GuiSource2
    \/ TickInc
    \/ Conversion

DemoSpec == DemoInit /\ [][DemoNext]_vars

\* ---- properties of the last call ----------------------------------------
IsTx(e) == e.op # "d"

IsReadOp(e) == e.op = "r"

\* The read and write callbacks of the last call, delays left out.
BusOps == SelectSeq(trace, IsTx)

IsRead(e, reg, len) == e.op = "r" /\ e.reg = reg /\ e.len = len

IsWrite(e, reg) == e.op = "w" /\ e.reg = reg

\* Every callback of the last call returned success.
AllOk == \A i \in 1..Len(trace) : trace[i].ret = BME280_OK

ConfigRegs == {BME280_REG_CTRL_HUM, BME280_REG_CTRL_MEAS, BME280_REG_CONFIG}

\* The bits the j-th configuration step of bme280_init may change:
\* humidity level, temperature and pressure levels, filter, standby, mode.
StepLo(j) == CASE j = 1 -> 0 [] j = 2 -> 2 [] j = 3 -> 2 [] j = 4 -> 5 [] OTHER -> 0

StepHi(j) == CASE j = 1 -> 3 [] j = 2 -> 8 [] j = 3 -> 5 [] j = 4 -> 8 [] OTHER -> 2

\* S is the bus traffic of set_oversampling, set_filter, set_standby and
\* set_mode in this order: the registers are read in the order 0xF2, 0xF4,
\* 0xF5, 0xF5, 0xF4, and every write follows the read of its register and
\* changes only the bits of that step.
ConfigTail(S) ==
    /\ \A i \in 1..Len(S) : S[i].reg \in ConfigRegs
    /\ LET R == SelectSeq(S, IsReadOp)
       IN [i \in 1..Len(R) |-> R[i].reg]
            = <<BME280_REG_CTRL_HUM, BME280_REG_CTRL_MEAS, BME280_REG_CONFIG,
                BME280_REG_CONFIG, BME280_REG_CTRL_MEAS>>
    /\ \A i \in 1..Len(S) :
         S[i].op = "w" =>
           /\ i > 1
           /\ S[i - 1].op = "r"
           /\ S[i - 1].reg = S[i].reg
           /\ LET j == Len(SelectSeq(SubSeq(S, 1, i), IsReadOp))
              IN SameOutside(S[i].data[1], S[i - 1].data[1],
                             StepLo(j), StepHi(j))

\* C1: when every bus transaction succeeds and the identity register reads
\* 0x60, bme280_init reads the identity register, writes the reset command,
\* polls the status register (1 to 20 reads), reads the 26-byte block at
\* 0x88, reads the 7-byte block at 0xE1, and only then accesses the
\* configuration registers, in the order set_oversampling, set_filter,
\* set_standby, set_mode.
C1_InitOrder ==
    (op = "init" /\ AllOk /\ hw0.id = BME280_CHIP_ID) =>
      \E k \in 1..RESET_POLLS :
        /\ Len(BusOps) >= k + 4
        /\ IsRead(BusOps[1], BME280_REG_ID, 1)
        /\ IsWrite(BusOps[2], BME280_REG_RESET)
        /\ BusOps[2].data = <<BME280_SOFT_RESET>>
        /\ \A i \in 3..(k + 2) : IsRead(BusOps[i], BME280_REG_STATUS, 1)
        /\ IsRead(BusOps[k + 3], BME280_CALIB00_START, CALIB00_LEN)
        /\ IsRead(BusOps[k + 4], BME280_CALIB26_START, CALIB26_LEN)
        /\ ConfigTail(SubSeq(BusOps, k + 5, Len(BusOps)))

\* An init on a healthy bus that polled the status register several times
\* and had to rewrite the filter/standby register left at 0x4E.
C1_Witness ==
    /\ op = "init"
    /\ AllOk
    /\ rc = BME280_OK
    /\ hw0.config = 78
    /\ Len(SelectSeq(trace, IsReadOp)) >= 2 + RESET_POLLS + 5
    /\ \E i \in 1..Len(trace) : IsWrite(trace[i], BME280_REG_CONFIG)

\* C2: after every successful bme280_init the calibration is loaded, t_fine
\* is 0, the in-memory settings are the defaults, and the device registers
\* hold them: ctrl_hum bits 2:0 = 1, ctrl_meas = 0x24, config bits 4:2 = 0
\* and bits 7:5 = 5.
C2_InitDefaults ==
    (op = "init" /\ rc = BME280_OK) =>
      /\ dev.calib_loaded
      /\ dev.t_fine = 0
      /\ dev.settings = [osr_t |-> 1, osr_p |-> 1, osr_h |-> 1, filter |-> 0,
                         standby |-> 5, mode |-> 0]
      /\ Field(hw.ctrl_hum, 0, 3) = 1
      /\ hw.ctrl_meas = 36
      /\ Field(hw.config, 2, 5) = 0
      /\ Field(hw.config, 5, 8) = 5

\* A successful re-init of a driver that had been configured away from the
\* defaults in every field, in memory and on the device.
C2_Witness ==
    /\ op = "init"
    /\ rc = BME280_OK
    /\ Field(hw0.ctrl_hum, 0, 3) = 3
    /\ Field(hw0.ctrl_meas, 0, 2) = BME280_NORMAL_MODE
    /\ Field(hw0.ctrl_meas, 2, 8) # 9
    /\ Field(hw0.config, 2, 5) = 3
    /\ Field(hw0.config, 5, 8) = 7
    /\ dev0.settings.standby = BME280_STANDBY_20_MS
    /\ dev0.settings.mode = BME280_NORMAL_MODE

\* C3: if the identity register reads a value other than 0x60, bme280_init
\* returns BME280_E_CHIP_ID_MISMATCH, the identity read is its only bus
\* transaction (no write, no further read), and calib_loaded is false.
C3_ChipIdMismatch ==
    (op = "init" /\ Len(trace) >= 1 /\ trace[1].ret = BME280_OK
       /\ trace[1].data # <<BME280_CHIP_ID>>) =>
      /\ rc = BME280_E_CHIP_ID_MISMATCH
      /\ Len(trace) = 1
      /\ IsRead(trace[1], BME280_REG_ID, 1)
      /\ ~dev.calib_loaded

\* An init that met a foreign identity although an earlier
\* bme280_read_calibration had loaded a calibration.
C3_Witness ==
    /\ op = "init"
    /\ rc = BME280_E_CHIP_ID_MISMATCH
    /\ dev0.calib_loaded
    /\ hw0.id = 88

\* C4: when a bus transaction of bme280_init fails, init returns the code
\* that transaction returned and the failing transaction is the last one;
\* calib_loaded is true after init exactly when both calibration block
\* reads of this call succeeded.
C4_InitAbort ==
    op = "init" =>
      /\ \A i \in 1..Len(trace) :
           trace[i].ret # BME280_OK => (i = Len(trace) /\ rc = trace[i].ret)
      /\ dev.calib_loaded <=>
           /\ \E i \in 1..Len(trace) :
                /\ IsRead(trace[i], BME280_CALIB00_START, CALIB00_LEN)
                /\ trace[i].ret = BME280_OK
           /\ \E i \in 1..Len(trace) :
                /\ IsRead(trace[i], BME280_CALIB26_START, CALIB26_LEN)
                /\ trace[i].ret = BME280_OK

\* An init that failed in its default-configuration step with a code other
\* than BME280_E_COMM, after the calibration was loaded.
C4_Witness ==
    /\ op = "init"
    /\ rc = -7
    /\ dev.calib_loaded
    /\ trace[Len(trace)].reg \in ConfigRegs

\* The call was given an argument outside its enumeration.
InvalidArgs ==
    \/ op = "set_oversampling"
         /\ \E i \in 1..3 : args[i] > BME280_OSRS_X16
    \/ op = "set_filter" /\ args[1] > BME280_FILTER_16
    \/ op = "set_standby" /\ args[1] > BME280_STANDBY_20_MS
    \/ op = "set_mode" /\ args[1] \notin {0, 1, 3}

\* C5: a setter called with an out-of-range ordinal returns
\* BME280_E_INVALID_ARG and leaves every in-memory settings field unchanged.
C5_InvalidArgRejected ==
    InvalidArgs => (rc = BME280_E_INVALID_ARG /\ dev.settings = dev0.settings)

\* set_mode(2) rejected on an initialised driver that is in normal mode.
C5_Witness ==
    /\ op = "set_mode"
    /\ args = <<2>>
    /\ rc = BME280_E_INVALID_ARG
    /\ dev0.bus.read /\ dev0.bus.write
    /\ dev0.calib_loaded
    /\ dev0.settings.mode = BME280_NORMAL_MODE

IsSetter == op \in {"set_oversampling", "set_filter", "set_standby", "set_mode"}

SettingsFields == {"osr_t", "osr_p", "osr_h", "filter", "standby", "mode"}

\* The register that holds settings field f.
RegOf(f) ==
    CASE f = "osr_h" -> BME280_REG_CTRL_HUM
      [] f \in {"osr_t", "osr_p", "mode"} -> BME280_REG_CTRL_MEAS
      [] OTHER -> BME280_REG_CONFIG

\* The value of settings field f in the device registers h.
HwField(h, f) ==
    CASE f = "osr_h" -> Field(h.ctrl_hum, 0, 3)
      [] f = "osr_t" -> Field(h.ctrl_meas, 5, 8)
      [] f = "osr_p" -> Field(h.ctrl_meas, 2, 5)
      [] f = "mode" -> Field(h.ctrl_meas, 0, 2)
      [] f = "filter" -> Field(h.config, 2, 5)
      [] OTHER -> Field(h.config, 5, 8)

\* The last call performed a successful write to register reg.
WroteOk(reg) ==
    \E i \in 1..Len(trace) :
        IsWrite(trace[i], reg) /\ trace[i].ret = BME280_OK

\* A bus failure inside a setter is returned and changes no settings field.
SetterFailureKeepsSettings ==
    \A i \in 1..Len(trace) :
        trace[i].ret # BME280_OK =>
            (rc = trace[i].ret /\ dev.settings = dev0.settings)

\* C6 as stated: a setter whose bus read or write fails returns that code
\* and keeps every in-memory settings field; an in-memory field changes only
\* in a call whose device write for it succeeded.
C6_Original ==
    IsSetter =>
      /\ SetterFailureKeepsSettings
      /\ \A f \in SettingsFields :
           dev.settings[f] # dev0.settings[f] => WroteOk(RegOf(f))

\* C6 (amended): a setter whose bus read or write fails returns that code
\* and keeps every in-memory settings field; an in-memory field changes only
\* in a call that returns success, in which the device write for it
\* succeeded or was skipped because the register field already held the new
\* value, and after which the register field holds the new value.
C6_SetterCommit ==
    IsSetter =>
      /\ SetterFailureKeepsSettings
      /\ \A f \in SettingsFields :
           dev.settings[f] # dev0.settings[f] =>
             /\ rc = BME280_OK
             /\ WroteOk(RegOf(f)) \/ HwField(hw0, f) = dev.settings[f]
             /\ HwField(hw, f) = dev.settings[f]

\* set_oversampling wrote ctrl_hum, then its ctrl_meas write failed with a
\* code other than BME280_E_COMM, for levels that differ from those in
\* memory.
C6_Witness ==
    /\ op = "set_oversampling"
    /\ WroteOk(BME280_REG_CTRL_HUM)
    /\ IsWrite(trace[Len(trace)], BME280_REG_CTRL_MEAS)
    /\ trace[Len(trace)].ret = -7
    /\ rc = -7
    /\ args[1] # dev0.settings.osr_t
    /\ args[3] # dev0.settings.osr_h

\* C7 as stated: when bme280_init fails, the in-memory settings contain no
\* value whose device write did not succeed: a field that init changed was
\* written to the device by this call, or the device already holds it.
C7_NoPartialCommit ==
    (op = "init" /\ rc # BME280_OK) =>
      \A f \in SettingsFields :
        dev.settings[f] # dev0.settings[f] =>
          WroteOk(RegOf(f)) \/ HwField(hw, f) = dev.settings[f]

\* A write in a setter repeats the value just read from the same register.
RedundantWrite(i) ==
    /\ trace[i].op = "w"
    /\ trace[i - 1].op = "r"
    /\ trace[i - 1].reg = trace[i].reg
    /\ trace[i - 1].ret = BME280_OK
    /\ trace[i].data = trace[i - 1].data

\* C8 as stated: in every configuration call and for every register it
\* targets, a computed value equal to the value just read causes no bus
\* write, and the call still returns success.
C8_Original ==
    IsSetter =>
      /\ \A i \in 2..Len(trace) : ~RedundantWrite(i)
      /\ (AllOk /\ Len(trace) >= 1) => rc = BME280_OK

\* C8 (amended): set_filter, set_standby, set_mode and the ctrl_hum update
\* of set_oversampling issue no bus write when the computed value equals the
\* value just read, and the call still returns success; the ctrl_meas write
\* of set_oversampling is issued even when the value is unchanged.
C8_WriteElision ==
    IsSetter =>
      /\ \A i \in 2..Len(trace) :
           RedundantWrite(i) =>
             (op = "set_oversampling" /\ trace[i].reg = BME280_REG_CTRL_MEAS)
      /\ (AllOk /\ Len(trace) >= 1) => rc = BME280_OK
      /\ (op = "set_oversampling" /\ rc = BME280_OK) =>
           WroteOk(BME280_REG_CTRL_MEAS)

\* set_standby found the requested interval already in the register and
\* returned success after the read alone.
C8_Witness ==
    /\ op = "set_standby"
    /\ rc = BME280_OK
    /\ Len(trace) = 1
    /\ args = <<BME280_STANDBY_20_MS>>
    /\ Field(hw0.config, 5, 8) = BME280_STANDBY_20_MS

\* C9 as stated: every successful set_oversampling writes ctrl_hum (0xF2),
\* and that write strictly precedes the write to ctrl_meas (0xF4).
C9_Original ==
    (op = "set_oversampling" /\ rc = BME280_OK) =>
      \E i, j \in 1..Len(trace) :
        /\ i < j
        /\ IsWrite(trace[i], BME280_REG_CTRL_HUM)
        /\ IsWrite(trace[j], BME280_REG_CTRL_MEAS)

\* C9 (amended): every successful set_oversampling writes ctrl_meas (0xF4);
\* it writes ctrl_hum (0xF2) exactly when bits 2:0 of that register differ
\* from the requested humidity level, and that write strictly precedes the
\* write to ctrl_meas.
C9_HumidityFirst ==
    (op = "set_oversampling" /\ rc = BME280_OK) =>
      /\ \E j \in 1..Len(trace) :
           /\ IsWrite(trace[j], BME280_REG_CTRL_MEAS)
           /\ \A i \in 1..Len(trace) :
                IsWrite(trace[i], BME280_REG_CTRL_HUM) => i < j
      /\ (\E i \in 1..Len(trace) : IsWrite(trace[i], BME280_REG_CTRL_HUM))
           <=> Field(hw0.ctrl_hum, 0, 3) # args[3]

\* A successful set_oversampling that wrote both registers on a device in
\* normal mode.
C9_Witness ==
    /\ op = "set_oversampling"
    /\ rc = BME280_OK
    /\ WroteOk(BME280_REG_CTRL_HUM)
    /\ WroteOk(BME280_REG_CTRL_MEAS)
    /\ Field(hw0.ctrl_meas, 0, 2) = BME280_NORMAL_MODE

\* C10: set_filter changes only bits 4:2 of the config register (0xF5) and
\* set_standby only bits 7:5, whatever the register held; on success the
\* field holds the argument.
C10_ConfigFrame ==
    /\ op = "set_filter" =>
         /\ SameOutside(hw.config, hw0.config, 2, 5)
         /\ rc = BME280_OK => Field(hw.config, 2, 5) = args[1]
    /\ op = "set_standby" =>
         /\ SameOutside(hw.config, hw0.config, 5, 8)
         /\ rc = BME280_OK => Field(hw.config, 5, 8) = args[1]

\* set_filter rewrote a config register whose standby field and bits 1:0
\* were both nonzero.
C10_Witness ==
    /\ op = "set_filter"
    /\ rc = BME280_OK
    /\ WroteOk(BME280_REG_CONFIG)
    /\ Field(hw0.config, 5, 8) # 0
    /\ Field(hw0.config, 0, 2) # 0

\* C11: set_oversampling leaves bits 1:0 of ctrl_meas (0xF4) unchanged and
\* on success sets bits 7:5 and 4:2 to the temperature and pressure levels;
\* set_mode changes only bits 1:0 of ctrl_meas; set_oversampling changes
\* only bits 2:0 of ctrl_hum (0xF2).
C11_CtrlMeasFrame ==
    /\ op = "set_oversampling" =>
         /\ SameOutside(hw.ctrl_meas, hw0.ctrl_meas, 2, 8)
         /\ SameOutside(hw.ctrl_hum, hw0.ctrl_hum, 0, 3)
         /\ hw.config = hw0.config
         /\ rc = BME280_OK =>
              /\ Field(hw.ctrl_meas, 5, 8) = args[1]
              /\ Field(hw.ctrl_meas, 2, 5) = args[2]
              /\ Field(hw.ctrl_hum, 0, 3) = args[3]
    /\ op = "set_mode" =>
         /\ SameOutside(hw.ctrl_meas, hw0.ctrl_meas, 0, 2)
         /\ hw.ctrl_hum = hw0.ctrl_hum
         /\ rc = BME280_OK => Field(hw.ctrl_meas, 0, 2) = args[1]

\* set_oversampling rewrote both registers of a device in normal mode whose
\* ctrl_hum carried bits above bit 2.
C11_Witness ==
    /\ op = "set_oversampling"
    /\ rc = BME280_OK
    /\ Field(hw0.ctrl_meas, 0, 2) = BME280_NORMAL_MODE
    /\ hw0.ctrl_hum \div 8 # 0
    /\ WroteOk(BME280_REG_CTRL_HUM)
    /\ hw.ctrl_meas # hw0.ctrl_meas

\* ---- properties of acquisition calls ------------------------------------
IsStatusRead(e) == e.op = "r" /\ e.reg = BME280_REG_STATUS

\* The status reads of the last call, in order.
StatusReads == SelectSeq(trace, IsStatusRead)

\* The last call ended with a successful 8-byte burst read at 0xF7.
BurstReadLast ==
    /\ Len(trace) >= 1
    /\ IsRead(trace[Len(trace)], BME280_REG_PRESS_MSB, RAW_LEN)
    /\ trace[Len(trace)].ret = BME280_OK

\* The last call was bme280_read_measurement with the in-memory mode forced.
ForcedMeasurement ==
    op = "read_measurement" /\ dev0.settings.mode = BME280_FORCED_MODE

\* C12: in forced mode, if the measuring bit (bit 3 of the status register)
\* is set on every status read and no bus transaction fails,
\* bme280_read_measurement performs exactly 50 status reads, then the
\* 8-byte burst read, and returns success.
C12_ForcedRetryBound ==
    (ForcedMeasurement /\ AllOk
       /\ \A i \in 1..Len(StatusReads) :
            Bit(StatusReads[i].data[1], 3) = 1) =>
      /\ Len(StatusReads) = MEAS_POLLS
      /\ BurstReadLast
      /\ \A i \in 1..(Len(trace) - 1) :
           ~IsRead(trace[i], BME280_REG_PRESS_MSB, RAW_LEN)
      /\ rc = BME280_OK
      /\ Len(out) = 1

\* A forced-mode measurement on a device that showed the measuring bit on
\* every one of 50 polls, with the conversion trigger written.
C12_Witness ==
    /\ ForcedMeasurement
    /\ rc = BME280_OK
    /\ Len(StatusReads) = MEAS_POLLS
    /\ \A i \in 1..Len(StatusReads) : Bit(StatusReads[i].data[1], 3) = 1
    /\ WroteOk(BME280_REG_CTRL_MEAS)

\* The last call wrote ctrl_meas with mode bits = forced before its first
\* status poll and before its burst read.
TriggerWriteFirst ==
    \E j \in 1..Len(trace) :
        /\ IsWrite(trace[j], BME280_REG_CTRL_MEAS)
        /\ Field(trace[j].data[1], 0, 2) = BME280_FORCED_MODE
        /\ \A i \in 1..j :
             ~IsStatusRead(trace[i])
               /\ ~IsRead(trace[i], BME280_REG_PRESS_MSB, RAW_LEN)

C14_NoTriggerOutsideForced ==
    op = "read_measurement" =>
      /\ dev.settings = dev0.settings
      /\ (dev0.settings.mode # BME280_FORCED_MODE /\ dev0.bus.read) =>
           /\ Len(trace) = 1
           /\ IsRead(trace[1], BME280_REG_PRESS_MSB, RAW_LEN)

\* A successful measurement in normal mode on a device that would have
\* shown the measuring bit.
C14_Witness ==
    /\ op = "read_measurement"
    /\ rc = BME280_OK
    /\ dev0.settings.mode = BME280_NORMAL_MODE
    /\ Field(hw0.ctrl_meas, 0, 2) = BME280_NORMAL_MODE
    /\ dev0.calib_loaded
    /\ Len(trace) = 1

\* C15: bme280_soft_reset writes the reset command 0xB6 to register 0xE0
\* before any status read, then reads the status register at most 20 times
\* and stops at the first read whose bit 0 is clear; if bit 0 is set on all
\* 20 reads and no transaction fails it still returns success.
C15_ResetPoll ==
    (op = "soft_reset" /\ Len(trace) >= 1) =>
      /\ IsWrite(trace[1], BME280_REG_RESET)
      /\ trace[1].data = <<BME280_SOFT_RESET>>
      /\ \A i \in 2..Len(trace) : IsStatusRead(trace[i]) \/ trace[i].op = "d"
      /\ Len(StatusReads) <= RESET_POLLS
      /\ \A i \in 1..Len(trace) :
           (IsStatusRead(trace[i]) /\ trace[i].ret = BME280_OK
              /\ Bit(trace[i].data[1], 0) = 0) =>
             (i = Len(trace) /\ rc = BME280_OK)
      /\ \A i \in 1..(Len(StatusReads) - 1) :
           StatusReads[i].ret = BME280_OK /\ Bit(StatusReads[i].data[1], 0) = 1
      /\ AllOk => rc = BME280_OK
      /\ (AllOk /\ \A i \in 1..Len(StatusReads) :
                     Bit(StatusReads[i].data[1], 0) = 1) =>
           Len(StatusReads) = RESET_POLLS

\* A soft reset whose 20 status reads all showed the NVM copy in progress.
C15_Witness ==
    /\ op = "soft_reset"
    /\ rc = BME280_OK
    /\ Len(StatusReads) = RESET_POLLS
    /\ \A i \in 1..Len(StatusReads) : Bit(StatusReads[i].data[1], 0) = 1

\* C16: a bus failure on a status read inside either poll loop ends the
\* loop: the call returns that read's error code with no further status
\* read and no delay, so the failed read is the call's last bus event; in
\* bme280_read_measurement no burst read and no compensation follows (no
\* reading is produced and the context is unchanged).
C16_PollFailureEndsLoop ==
    op \in {"soft_reset", "init", "read_measurement"} =>
      \A i \in 1..Len(trace) :
        (IsStatusRead(trace[i]) /\ trace[i].ret # BME280_OK) =>
          /\ i = Len(trace)
          /\ rc = trace[i].ret
          /\ op = "read_measurement" => (out = <<>> /\ dev = dev0)

\* A forced-mode measurement on a calibrated context whose third status
\* read failed after two busy polls.
C16_Witness ==
    /\ ForcedMeasurement
    /\ dev0.calib_loaded
    /\ Len(StatusReads) = 3
    /\ IsStatusRead(trace[Len(trace)])
    /\ trace[Len(trace)].ret # BME280_OK
    /\ rc = trace[Len(trace)].ret

\* The last call was one of the three compensation functions.
IsCompensation ==
    op \in {"compensate_temperature", "compensate_pressure",
            "compensate_humidity"}

\* C17: while calib_loaded is false each compensation function returns 0.0
\* for every raw input, reports no error and changes nothing in the
\* context, t_fine included; it makes no bus transaction.
C17_UncalibratedZero ==
    (IsCompensation /\ ~dev0.calib_loaded) =>
      /\ out = <<FltZero>>
      /\ dev = dev0
      /\ trace = <<>>
      /\ hw = hw0

\* A temperature compensation on a context whose last initialisation loaded
\* the first calibration block and then failed, so that the temperature
\* constants are present and calib_loaded is false.
C17_Witness ==
    /\ op = "compensate_temperature"
    /\ ~dev0.calib_loaded
    /\ dev0.calib.dig_T1 # 0
    /\ out = <<FltZero>>

\* The 20-bit and 16-bit raw values held by the 8 bytes of a burst read.
SampleP(buf) == buf[1] * 4096 + buf[2] * 16 + buf[3] \div 16

SampleT(buf) == buf[4] * 4096 + buf[5] * 16 + buf[6] \div 16

SampleH(buf) == buf[7] * 256 + buf[8]

\* The context before the last call, as the argument of a compensation.
Before == [dev |-> dev0, f |-> FltZero]

\* C18: within every successful bme280_read_measurement the temperature
\* compensation runs before the pressure and humidity compensations: the
\* t_fine left in the context is the one computed from this call's burst,
\* and the pressure and humidity returned are the ones computed with that
\* t_fine, not with the t_fine of an earlier call.
C18_TemperatureFirst ==
    (op = "read_measurement" /\ rc = BME280_OK) =>
      LET buf == trace[Len(trace)].data
          t == bme280_compensate_temperature(Before, SampleT(buf))
          p == bme280_compensate_pressure(t, SampleP(buf))
          h == bme280_compensate_humidity(t, SampleH(buf))
      IN /\ Len(out) = 1
         /\ dev.t_fine = t.dev.t_fine
         /\ out[1].temperature_c = t.f
         /\ out[1].pressure_pa = p.f
         /\ out[1].humidity_rh = h.f

\* A successful measurement on a calibrated context that held the t_fine
\* of an earlier, different sample.
C18_Witness ==
    /\ op = "read_measurement"
    /\ rc = BME280_OK
    /\ dev0.calib_loaded
    /\ dev0.t_fine # 0
    /\ dev.t_fine # dev0.t_fine
    /\ out[1].pressure_pa.den = 256

\* The calls that load calibration constants.
LoadsCalibration == op \in {"init", "read_calibration"}

\* C19: once the calibration is loaded, the 18 constants and calib_loaded
\* stay as they are until bme280_init or bme280_read_calibration runs again:
\* no setter, soft reset, chip-id read, raw read, compensation or
\* measurement call, failed or not, changes a constant or clears
\* calib_loaded.
C19_CalibrationImmutable ==
    (dev0.calib_loaded /\ ~LoadsCalibration) =>
      (dev.calib = dev0.calib /\ dev.calib_loaded)

\* A soft reset of a calibrated context that has already produced a
\* measurement.
C19_Witness ==
    /\ op = "soft_reset"
    /\ rc = BME280_OK
    /\ dev0.calib_loaded
    /\ dev0.t_fine # 0
    /\ dev.calib.dig_H5 = -2040

\* The value of a 12-bit pattern read as two's complement.
TwosComplement12(raw) == IF raw >= 2048 THEN raw - 4096 ELSE raw

\* C20: for every value of the bytes at 0xE4, 0xE5 and 0xE6, a successful
\* calibration read leaves dig_H4 equal to the 12-bit two's-complement value
\* of (0xE4 << 4) | (low nibble of 0xE5) and dig_H5 equal to that of
\* (0xE6 << 4) | (high nibble of 0xE5), both within -2048..2047; the raw
\* pattern 0x800 decodes to -2048.
C20_PackedHumidity ==
    (op = "read_calibration" /\ rc = BME280_OK) =>
      LET e4 == hw.cal2[4]
          e5 == hw.cal2[5]
          e6 == hw.cal2[6]
      IN /\ dev.calib.dig_H4 = TwosComplement12(e4 * 16 + (e5 % 16))
         /\ dev.calib.dig_H5 = TwosComplement12(e6 * 16 + (e5 \div 16))
         /\ dev.calib.dig_H4 \in -2048..2047
         /\ dev.calib.dig_H5 \in -2048..2047
         /\ (e4 * 16 + (e5 % 16) = 2048) => dev.calib.dig_H4 = -2048
         /\ (e6 * 16 + (e5 \div 16) = 2048) => dev.calib.dig_H5 = -2048

\* A successful calibration read of a device whose dig_H4 field holds the
\* pattern 0x800.
C20_Witness ==
    /\ op = "read_calibration"
    /\ rc = BME280_OK
    /\ hw.cal2[4] = 128
    /\ hw.cal2[5] % 16 = 0
    /\ dev.calib.dig_H4 = -2048
    /\ dev.calib.dig_H5 = 2047

\* A burst with the low nibbles of the two XLSB bytes cleared.
NoLowNibbles(buf) ==
    [buf EXCEPT ![3] = @ - (@ % 16), ![6] = @ - (@ % 16)]

\* C21: for every 8-byte burst b0..b7 a successful bme280_read_raw returns
\* pressure (b0<<12)|(b1<<4)|(b2>>4), temperature (b3<<12)|(b4<<4)|(b5>>4)
\* and humidity (b6<<8)|b7; pressure and temperature lie in 0..2^20-1,
\* humidity in 0..2^16-1, and the low nibbles of b2 and b5 do not affect
\* the result.
C21_RawAssembly ==
    (op = "read_raw" /\ rc = BME280_OK) =>
      LET b == trace[Len(trace)].data
      IN /\ b = hw.raw
         /\ out = <<SampleT(b), SampleP(b), SampleH(b)>>
         /\ out = <<SampleT(NoLowNibbles(b)), SampleP(NoLowNibbles(b)),
                    SampleH(b)>>
         /\ out[1] \in 0..(2 ^ 20 - 1)
         /\ out[2] \in 0..(2 ^ 20 - 1)
         /\ out[3] \in 0..(2 ^ 16 - 1)

\* A raw read of a burst whose pressure bytes are all 0xFF, the low nibble
\* of b2 included, and whose temperature bytes are all 0.
C21_Witness ==
    /\ op = "read_raw"
    /\ rc = BME280_OK
    /\ hw.raw[1] = 255 /\ hw.raw[2] = 255 /\ hw.raw[3] = 255
    /\ out = <<0, 2 ^ 20 - 1, 255 * 256 + 255>>

\* C22: with the calibration loaded, for every raw humidity count, t_fine
\* and calibration set, the integer humidity value is clamped into
\* 0..419430400 before scaling and the humidity returned lies in 0..100: a
\* value below 0 before the clamp yields 0, one above 419430400 yields 100,
\* and one in between yields (value >> 12) / 1024.
C22_HumidityClamp ==
    (op = "compensate_humidity" /\ dev0.calib_loaded) =>
      LET v == humidity_v_x1(dev0.calib, dev0.t_fine, args[1])
          h == out[1]
      IN /\ h.den = 1024
         /\ h.num \in 0..(100 * 1024)
         /\ v < 0 => h.num = 0
         /\ v > 419430400 => h.num = 100 * 1024
         /\ v \in 0..419430400 => h.num = v \div 4096

\* A humidity compensation of the full-scale count whose value before the
\* clamp exceeds 419430400, on a context holding a t_fine.
C22_Witness ==
    /\ op = "compensate_humidity"
    /\ dev0.calib_loaded
    /\ dev0.t_fine # 0
    /\ args = <<65535>>
    /\ humidity_v_x1(dev0.calib, dev0.t_fine, args[1]) > 419430400
    /\ out = <<Flt(100 * 1024, 1024)>>

\* The divisor bme280_compensate_pressure would use on the context before
\* the last call.
Divisor == pressure_var1(dev0.calib, ISub(I64(dev0.t_fine), I64(128000)))

\* C23: bme280_compensate_pressure never divides by zero: whenever
\* (((1 << 47) + var1) * dig_P1) >> 33 is exactly 0 (dig_P1 = 0, for one)
\* it returns 0.0 without dividing, for every raw pressure count and
\* every t_fine; otherwise it returns the quotient scaled by 1/256.
C23_NoDivisionByZero ==
    (op = "compensate_pressure" /\ dev0.calib_loaded) =>
      /\ IIsZero(Divisor) => (out[1].den = 1 /\ out[1].num = 0)
      /\ ~IIsZero(Divisor) => out[1].den = 256
      /\ dev0.calib.dig_P1 = 0 => IIsZero(Divisor)
      /\ dev = dev0

\* A pressure compensation whose divisor is 0 although dig_P1 is not.
C23_Witness ==
    /\ op = "compensate_pressure"
    /\ dev0.calib_loaded
    /\ dev0.calib.dig_P1 = 1
    /\ dev0.t_fine = 1176548
    /\ IIsZero(Divisor)
    /\ out[1].den = 1

\* var1 + var2 of the temperature formula for raw count adc and constants
\* c, in plain arithmetic (>> n of a negative value rounds down, as \div).
TFineOf(adc, c) ==
    (((adc \div 8) - 2 * c.dig_T1) * c.dig_T2) \div 2048
      + (((((adc \div 16) - c.dig_T1) * ((adc \div 16) - c.dig_T1)) \div 4096)
           * c.dig_T3) \div 16384

\* C27: t_fine is written only by bme280_init, which resets it to 0, and by
\* the temperature compensation with the calibration loaded, whose value
\* depends only on the raw temperature count and dig_T1..dig_T3 and not on
\* the previous t_fine; the pressure and humidity compensations, read_raw,
\* the setters, soft_reset, read_chip_id and read_calibration leave it
\* unchanged.  (bme280_read_measurement writes it through its temperature
\* compensation, when it succeeds.)
C27_TFineFrame ==
    /\ op = "init" => dev.t_fine = 0
    /\ op = "compensate_temperature" =>
         dev.t_fine = IF dev0.calib_loaded THEN TFineOf(args[1], dev0.calib)
                      ELSE dev0.t_fine
    /\ op = "read_measurement" =>
         dev.t_fine = IF rc = BME280_OK /\ dev0.calib_loaded
                      THEN TFineOf(SampleT(trace[Len(trace)].data), dev0.calib)
                      ELSE dev0.t_fine
    /\ op \notin {"init", "compensate_temperature", "read_measurement"} =>
         dev.t_fine = dev0.t_fine

\* A temperature compensation that replaced the t_fine of a different
\* sample.
C27_Witness ==
    /\ op = "compensate_temperature"
    /\ dev0.calib_loaded
    /\ dev0.t_fine # 0
    /\ dev.t_fine # dev0.t_fine
    /\ dev.t_fine = TFineOf(args[1], dev0.calib)

\* The pressure (in 1/256 Pa) and humidity (in 1/1024 %RH) that the
\* reference calibration gives for the raw counts 415148 and 30281 with the
\* cross-term t_fine.
ReferencePressure(t_fine) ==
    CASE t_fine = 0 -> 24786192
      [] t_fine = 128422 -> 25767233
      [] t_fine = 147843 -> 25916894

ReferenceHumidity(t_fine) ==
    CASE t_fine = 0 -> 0
      [] t_fine = 128422 -> 86579
      [] t_fine = 147843 -> 100537

\* C28: a direct call of the pressure or humidity compensation computes its
\* result from the t_fine the context holds, left by the most recent
\* temperature compensation whichever sample it came from, or 0 if none has
\* run since bme280_init; it signals no error and changes nothing, so the
\* same raw count yields different results after different temperature
\* calls.
C28_StaleCrossTerm ==
    /\ (op = "compensate_pressure" /\ dev0.calib_loaded) =>
         /\ out[1].den = 256
         /\ args = <<415148>> =>
              IToInt(out[1].num) = ReferencePressure(dev0.t_fine)
         /\ rc = BME280_OK /\ dev = dev0
    /\ (op = "compensate_humidity" /\ dev0.calib_loaded) =>
         /\ out[1].den = 1024
         /\ args = <<30281>> => out[1].num = ReferenceHumidity(dev0.t_fine)
         /\ rc = BME280_OK /\ dev = dev0

\* A humidity compensation of the count of the device's current sample
\* with the t_fine of another sample.
C28_Witness ==
    /\ op = "compensate_humidity"
    /\ dev0.calib_loaded
    /\ dev0.t_fine = 147843
    /\ hw.raw = RawImage1
    /\ args = <<SampleH(hw.raw)>>
    /\ out = <<Flt(100537, 1024)>>

\* C29: bme280_read_calibration takes dig_H1 from register 0xA1, the last
\* byte (offset 25) of the 26-byte block read from 0x88, and the other
\* constants of that block from the addresses they live at.
C29_CalibrationAddresses ==
    (op = "read_calibration" /\ rc = BME280_OK) =>
      /\ dev.calib.dig_T1 = hw.cal1[0 + 1] + 256 * hw.cal1[1 + 1]
      /\ dev.calib.dig_P1 = hw.cal1[6 + 1] + 256 * hw.cal1[7 + 1]
      /\ dev.calib.dig_H1 = hw.cal1[25 + 1]

\* ---- missing callbacks ---------------------------------------------------
\* The bus the last call ran on: the one bme280_init stored, for a call of
\* bme280_init the one it was handed.
CallBus == IF op = "init" THEN dev.bus ELSE dev0.bus

IsBusyRead(e) == IsStatusRead(e) /\ e.ret = BME280_OK /\ e.data[1] # 0

\* The behaviour of the device and of the bus the callbacks of the last call
\* showed: the transaction that failed, if one did, and the status bytes.
SeenEnv ==
    LET tx == BusOps
        busy == SelectSeq(trace, IsBusyRead)
        failed == Len(tx) > 0 /\ tx[Len(tx)].ret # BME280_OK
    IN [failAt |-> IF failed THEN Len(tx) ELSE 0,
        err |-> IF failed THEN tx[Len(tx)].ret ELSE BME280_OK,
        stv |-> IF Len(busy) > 0 THEN busy[1].data[1] ELSE 0,
        stk |-> Len(busy)]

\* The last call made again from the same driver and device state, with the
\* same behaviour of the device, on bus b.
Rerun(b) ==
    LET M == StartOn([dev0 EXCEPT !.bus = b], hw0, SeenEnv)
    IN CASE op = "init" -> bme280_init(M, b, args[1])
         [] op = "soft_reset" -> bme280_soft_reset(M)
         [] op = "read_chip_id" -> bme280_read_chip_id(M)
         [] op = "read_calibration" -> bme280_read_calibration(M)
         [] op = "set_mode" -> bme280_set_mode(M, args[1])
         [] op = "read_raw" -> bme280_read_raw(M)
         [] op = "read_measurement" -> bme280_read_measurement(M)

BusCalls ==
    {"init", "soft_reset", "read_chip_id", "read_calibration", "set_mode",
     "read_raw", "read_measurement"}

IsPrefix(s, t) == Len(s) <= Len(t) /\ SubSeq(t, 1, Len(s)) = s

\* C30: a status-returning function called without a device returns
\* BME280_E_NULL_PTR and invokes no callback.  A call on a bus whose read or
\* write callback is missing invokes the callbacks a call on the complete bus
\* invokes up to the first one that is missing, returns BME280_E_NULL_PTR at
\* that point and invokes nothing after it; a call that never needs the
\* missing callback returns what it returns on the complete bus.  bme280_init
\* on a bus without read returns BME280_E_NULL_PTR with no transaction; on a
\* bus with read and without write, once the identity read has returned the
\* BME280 identity, it returns BME280_E_NULL_PTR with that read as its only
\* transaction.
C30_NullCapability ==
    /\ op = "null_dev" =>
         rc = BME280_E_NULL_PTR /\ trace = <<>> /\ dev = dev0 /\ hw = hw0
    /\ op \in BusCalls =>
         LET full == Rerun([CallBus EXCEPT !.read = TRUE, !.write = TRUE])
             n == Len(trace)
         IN /\ \A i \in 1..n :
                 /\ trace[i].op = "r" => CallBus.read
                 /\ trace[i].op = "w" => CallBus.write
            /\ IsPrefix(trace, full.trace)
            /\ n = Len(full.trace) => rc = full.rc
            /\ n < Len(full.trace) =>
                 /\ rc = BME280_E_NULL_PTR
                 /\ \/ full.trace[n + 1].op = "r" /\ ~CallBus.read
                    \/ full.trace[n + 1].op = "w" /\ ~CallBus.write
    /\ (op = "init" /\ ~CallBus.read) =>
         rc = BME280_E_NULL_PTR /\ trace = <<>>
    /\ (op = "init" /\ CallBus.read /\ ~CallBus.write
          /\ trace[1].ret = BME280_OK /\ hw0.id = BME280_CHIP_ID) =>
         /\ rc = BME280_E_NULL_PTR
         /\ Len(trace) = 1
         /\ IsRead(trace[1], BME280_REG_ID, 1)

C30_Witness ==
    /\ op = "init"
    /\ CallBus.read
    /\ ~CallBus.write
    /\ rc = BME280_E_NULL_PTR
    /\ Len(trace) = 1
    /\ trace[1].ret = BME280_OK

\* ---- the optional delay callback ------------------------------------------
IsDelay(e) == e.op = "d"

\* A status read of the last call that found the bit its loop polls set.
FoundBusy(e) ==
    /\ IsBusyRead(e)
    /\ BitAnd(e.data[1],
              IF op = "read_measurement" THEN BME280_STATUS_MEASURING
              ELSE BME280_STATUS_IM_UPDATE, 8) # 0

\* C24: with delay_ms absent, bme280_soft_reset, bme280_init and
\* bme280_read_measurement invoke no delay and otherwise behave as with
\* delay_ms present: for the same behaviour of the device the reads and
\* writes are the same, in the same order (at most 20 status polls in a
\* reset, at most 50 in a forced measurement), and so are the result, the
\* measurement, the driver context and the device registers; the run with
\* delay_ms has one delay after each poll that found the device busy.
C24_DelayOptional ==
    (op \in {"soft_reset", "init", "read_measurement"} /\ ~CallBus.delay_ms) =>
      LET with == Rerun([CallBus EXCEPT !.delay_ms = TRUE])
      IN /\ SelectSeq(trace, IsDelay) = <<>>
         /\ SelectSeq(with.trace, IsTx) = trace
         /\ Len(SelectSeq(with.trace, IsDelay)) = Len(SelectSeq(trace, FoundBusy))
         /\ with.rc = rc
         /\ with.out = out
         /\ with.hw = hw
         /\ [with.dev EXCEPT !.bus = dev.bus] = dev
         /\ Len(StatusReads)
              <= (IF op = "read_measurement" THEN MEAS_POLLS ELSE RESET_POLLS)

C24_Witness ==
    /\ op = "read_measurement"
    /\ dev0.settings.mode = BME280_FORCED_MODE
    /\ ~CallBus.delay_ms
    /\ rc = BME280_OK
    /\ Len(StatusReads) = MEAS_POLLS
    /\ Len(SelectSeq(Rerun([CallBus EXCEPT !.delay_ms = TRUE]).trace, IsDelay))
         = MEAS_POLLS

\* ---- the Sensor.h adapters: fresh readings --------------------------------
IsBurstRead(e) == IsRead(e, BME280_REG_PRESS_MSB, RAW_LEN)

IsModeRead(e) == IsRead(e, BME280_REG_CTRL_MEAS, 1)

\* The field of reading r an adapter with get_event function g reports.
Surfaced(g, r) ==
    CASE g = "temp" -> r.temperature_c
      [] g = "pressure" -> [num |-> r.pressure_pa.num,
                            den |-> r.pressure_pa.den * 100]
      [] g = "humidity" -> r.humidity_rh

TypeOf(g) ==
    CASE g = "temp" -> SENSOR_TYPE_AMBIENT_TEMPERATURE
      [] g = "pressure" -> SENSOR_TYPE_PRESSURE
      [] g = "humidity" -> SENSOR_TYPE_RELATIVE_HUMIDITY

C26_OneCallInFlight ==
    demo.running =>
      /\ Len(demo.inflight) <= 1
      /\ \A i \in 1..Len(demo.inflight) :
           /\ demo.inflight[i].thread = "api"
           /\ demo.inflight[i].fn = demo.api.pc
           /\ demo.inflight[i].fn \in DriverCalls
      /\ demo.api.busy <=> Len(demo.inflight) = 1

C26_Witness ==
    /\ demo.running
    /\ Len(demo.inflight) = 1
    /\ demo.inflight[1].fn = "read_measurement"
    /\ demo.gui.pc = "snap_flags"
    /\ demo.mutex = "gui"
    /\ demo.tick = 1
    /\ demo.cycles = 1

\* ---- rejected setter calls -------------------------------------------------
\* C37: a setter call rejected with BME280_E_INVALID_ARG invokes no bus
\* callback, neither read nor write, and leaves the device registers and the
\* driver context as they were; a bme280_set_oversampling call with one
\* level out of range and the other two valid is such a call, whichever of
\* the three levels it is.
C37_RejectedNoBus ==
    /\ InvalidArgs =>
         (rc = BME280_E_INVALID_ARG /\ trace = <<>> /\ hw = hw0 /\ dev = dev0)
    /\ (op = "set_oversampling"
          /\ Cardinality({i \in 1..3 : args[i] > BME280_OSRS_X16}) = 1) =>
         (rc = BME280_E_INVALID_ARG /\ trace = <<>> /\ hw = hw0)

\* Humidity level 6 with valid temperature and pressure levels, on an
\* initialised driver whose registers hold other levels.
C37_Witness ==
    /\ op = "set_oversampling"
    /\ args = <<1, 1, 6>>
    /\ rc = BME280_E_INVALID_ARG
    /\ dev0.bus.read
    /\ hw0.ctrl_hum # 1
    /\ trace = <<>>

\* ---- bounded calls ---------------------------------------------------------
IsWriteOp(e) == e.op = "w"

\* The read callbacks and the write callbacks of the last call.
Reads == SelectSeq(trace, IsReadOp)

Writes == SelectSeq(trace, IsWriteOp)

\* C35: every driver call returns after a bounded number of bus
\* transactions, whatever status bytes and register contents the device
\* shows and wherever a transaction fails: bme280_soft_reset after at most
\* 1 write and 20 reads, bme280_read_measurement after at most 1 write and
\* 52 reads (at most 1 read of the control register, 50 status reads and 1
\* burst read), bme280_init after at most 6 writes and 28 reads.
C35_BoundedTransactions ==
    /\ op = "soft_reset" =>
         (Len(Writes) <= 1 /\ Len(Reads) <= RESET_POLLS)
    /\ op = "read_measurement" =>
         /\ Len(Writes) <= 1
         /\ Len(Reads) <= MEAS_POLLS + 2
         /\ Len(SelectSeq(trace, IsModeRead)) <= 1
         /\ Len(StatusReads) <= MEAS_POLLS
         /\ Len(SelectSeq(trace, IsBurstRead)) <= 1
    /\ op = "init" => (Len(Writes) <= 6 /\ Len(Reads) <= RESET_POLLS + 8)

\* A bring-up that needed every transaction: 20 busy status polls and all of
\* the six writes, on a device that held another configuration.
C35_Witness ==
    /\ op = "init"
    /\ rc = BME280_OK
    /\ Len(Writes) = 6
    /\ Len(Reads) = RESET_POLLS + 8

\* ---- a failed measurement --------------------------------------------------
\* The burst reads of the last call that returned data.
GoodBursts == SelectSeq(trace, LAMBDA e : IsBurstRead(e) /\ e.ret = 0)

\* C36: a bme280_read_measurement that returns an error, whether the mode
\* write, a status poll or the burst read failed, has written nothing to the
\* caller's reading and has left t_fine as it was; one that returns success
\* has written the three fields of the reading, all computed from the one
\* burst read of the call.
C36_ErrorLeavesReading ==
    op = "read_measurement" =>
      IF rc # BME280_OK
      THEN /\ out = <<>>
           /\ dev.t_fine = dev0.t_fine
           /\ GoodBursts = <<>>
      ELSE /\ Len(out) = 1
           /\ DOMAIN out[1] = {"temperature_c", "pressure_pa", "humidity_rh"}
           /\ Len(GoodBursts) = 1
           /\ LET buf == GoodBursts[1].data
                  t == bme280_compensate_temperature(Before, SampleT(buf))
              IN out[1] = [temperature_c |-> t.f,
                           pressure_pa |->
                               bme280_compensate_pressure(t, SampleP(buf)).f,
                           humidity_rh |->
                               bme280_compensate_humidity(t, SampleH(buf)).f]

\* A forced measurement whose burst read failed after the trigger and the
\* poll went through, on a context holding the t_fine of an earlier call.
C36_Witness ==
    /\ op = "read_measurement"
    /\ rc # BME280_OK
    /\ Len(trace) >= 3
    /\ IsBurstRead(trace[Len(trace)])
    /\ trace[Len(trace)].ret # 0
    /\ dev0.calib_loaded
    /\ dev0.t_fine # 0
    /\ out = <<>>

\* ---- settings in memory and in the registers -------------------------------
MirroredFields == {"osr_t", "osr_p", "osr_h", "filter", "standby"}

\* The settings of context d that differ from the bit fields of device h.
Stale(d, h) == {f \in MirroredFields : d.settings[f] # HwField(h, f)}

\* C33 as stated: after a successful bme280_init and any sequence of setter
\* calls, successful, rejected or failed on the bus, osr_t, osr_p, osr_h,
\* filter and standby in memory equal the bit fields held in registers 0xF4,
\* 0xF2 and 0xF5 whenever no call is running.
C33_Original == Stale(dev, hw) = {}

\* C33 (amended): after a successful bme280_init and any sequence of setter
\* calls, osr_t, osr_p, filter and standby in memory equal the register
\* fields; osr_h equals its field as long as no bus transaction failed and
\* after every successful bme280_set_oversampling.  A setter call that
\* starts from equal fields ends with equal fields unless it is a
\* bme280_set_oversampling that fails after its write of ctrl_hum went
\* through: then register 0xF2 holds the new osr_h and memory the old one.
C33_SettingsMirror ==
    /\ Stale(dev, hw) \subseteq {"osr_h"}
    /\ nfaults = 0 => Stale(dev, hw) = {}
    /\ (op = "set_oversampling" /\ rc = BME280_OK) => Stale(dev, hw) = {}
    /\ (IsSetter /\ Stale(dev0, hw0) = {}) =>
         \/ Stale(dev, hw) = {}
         \/ /\ op = "set_oversampling"
            /\ rc \notin {BME280_OK, BME280_E_INVALID_ARG}
            /\ WroteOk(BME280_REG_CTRL_HUM)
            /\ HwField(hw, "osr_h") = args[3]
            /\ dev.settings = dev0.settings

\* bme280_set_oversampling failing on ctrl_meas after it changed ctrl_hum,
\* on a driver whose settings matched the registers.
C33_Witness ==
    /\ op = "set_oversampling"
    /\ rc \notin {BME280_OK, BME280_E_INVALID_ARG}
    /\ Stale(dev0, hw0) = {}
    /\ Stale(dev, hw) = {"osr_h"}
    /\ dev.settings.osr_h = BME280_OSRS_X1
    /\ HwField(hw, "osr_h") = 3

\* ---- loading the calibration -------------------------------------------------
\* The 18 constants one successful bme280_read_calibration decodes from the
\* two blocks of device h.
LoadedFrom(h) == calib_block2(calib_block1(ZeroCalib, h.cal1), h.cal2)

\* C34: calibration loading is atomic.  Whenever calib_loaded is true the 18
\* constants are the ones of one successful bme280_read_calibration, and a
\* bme280_read_calibration that fails, on the first block read or on the
\* second, leaves the stored constants and calib_loaded as they were.
C34_AtomicCalibration ==
    /\ dev.calib_loaded => dev.calib = LoadedFrom(hw)
    /\ (op = "read_calibration" /\ rc # BME280_OK) =>
         (dev.calib = dev0.calib /\ dev.calib_loaded = dev0.calib_loaded)

\* ---- the demo program: who updates the labels --------------------------------
\* Two published values are the same float (NaN has denominator 0).
SameValue(a, b) == a.den = b.den /\ (a.den # 0 => a.num = b.num)

\* The texts of the five labels are the same in d and e.
SameLabels(d, e) ==
    /\ SameValue(d.labels.temp, e.labels.temp)
    /\ SameValue(d.labels.pressure, e.labels.pressure)
    /\ SameValue(d.labels.humidity, e.labels.humidity)
    /\ d.labels.time = e.labels.time
    /\ d.labels.source = e.labels.source

IsNaN(x) == x.den = 0

\* The API thread has published the values of its current cycle.
PublishedNow == demo.api.pc \in {"unlock", "sleep"}

\* The update cycles published so far.
Published == demo.cycles + (IF PublishedNow THEN 1 ELSE 0)

\* C31: in the demo a cycle whose sensor read failed publishes NaN for
\* temperature, pressure and humidity and 0 for the source flag, never a
\* value of an earlier cycle; and every cycle run with the sensor
\* initialised adds one to exactly one of the counters g_bme_ok and
\* g_bme_err: to g_bme_err when the read failed, to g_bme_ok when it
\* succeeded, so that the two counters together count the cycles published.
C31_FailedReadUnavailable ==
    /\ [](demo.running =>
            /\ (PublishedNow /\ demo.bme_inited # 0
                  /\ demo.api.rc # BME280_OK) =>
                 /\ IsNaN(demo.current_data.temperature)
                 /\ IsNaN(demo.current_data.pressure)
                 /\ IsNaN(demo.current_data.humidity)
                 /\ demo.g_last_source_is_bme = 0
            /\ demo.g_bme_ok + demo.g_bme_err =
                 (IF demo.bme_inited # 0 THEN Published ELSE 0))
    /\ [][(demo.running /\ demo.api.pc = "pub_flags"
             /\ demo'.api.pc = "unlock" /\ demo.bme_inited # 0) =>
            LET ok == demo'.g_bme_ok - demo.g_bme_ok
                err == demo'.g_bme_err - demo.g_bme_err
            IN /\ {ok, err} = {0, 1}
               /\ err = 1 <=> demo.api.rc # BME280_OK]_vars

\* A cycle whose read failed, after a cycle that had published a reading of
\* the sensor.
C31_Witness ==
    /\ demo.running
    /\ demo.api.pc = "sleep"
    /\ demo.cycles = 1
    /\ demo.api.rc # BME280_OK
    /\ demo.g_bme_ok = 1
    /\ demo.g_bme_err = 1
    /\ IsNaN(demo.current_data.temperature)
    /\ ~IsNaN(demo.gui.t)

\* ---- the demo program: the snapshot of the GUI thread --------------------------
\* update_display_data has taken its snapshot and not yet returned.
SnapshotTaken == demo.gui.pc \in {"unlock", "labels", "source", "source2"}

\* The snapshot of the GUI thread holds exactly the values c.
SnapshotOf(c) ==
    /\ SameValue(demo.gui.t, c.temperature)
    /\ SameValue(demo.gui.p, c.pressure)
    /\ SameValue(demo.gui.h, c.humidity)
    /\ demo.gui.time_str = c.time_str
    /\ demo.gui.last_is_bme = c.last_is_bme
    /\ demo.gui.bme_ok = c.bme_ok
    /\ demo.gui.bme_err = c.bme_err

\* C38: in the demo every snapshot update_display_data takes is consistent,
\* whatever the interleaving with the API update thread: temperature,
\* pressure, humidity, time string, source flag and the two counters are
\* the ones one completed update cycle published, or are all the initial
\* values, never values of two cycles.
C38_SnapshotConsistent ==
    (demo.running /\ SnapshotTaken) =>
      \/ SnapshotOf(Shared(DemoStart(demo.at)))
      \/ \E k \in 1..Len(demo.log) : SnapshotOf(demo.log[k])

\* The GUI thread holds the snapshot of the first cycle, a reading of the
\* sensor, while the API thread is half way through publishing a second
\* cycle whose read failed.
C38_Witness ==
    /\ demo.running
    /\ demo.gui.pc = "labels"
    /\ demo.gui.time_str = 1
    /\ ~IsNaN(demo.gui.t)
    /\ demo.gui.bme_ok = 1
    /\ demo.api.pc = "pub_flags"
    /\ demo.current_data.time_str = 2
    /\ IsNaN(demo.current_data.temperature)
    /\ demo.g_bme_err = 0

\* ---- the demo program: the initialised flag ------------------------------------
\* C39: in the demo, whenever bme_inited is 1, bme280_init and the four
\* configuration calls after it succeeded: the calibration is loaded, the
\* oversampling, filter and standby settings are the configured ones in
\* memory and in the registers, and the device is in normal mode with the
\* in-memory mode normal; the flag is never set while the device is in the
\* sleep mode bme280_init left it in.
C39_InitedMeansNormal ==
    (demo.running /\ demo.bme_inited = 1) =>
      /\ dev.calib_loaded
      /\ dev.settings = [osr_t |-> BME280_OSRS_X1, osr_p |-> BME280_OSRS_X1,
                         osr_h |-> BME280_OSRS_X1,
                         filter |-> BME280_FILTER_OFF,
                         standby |-> BME280_STANDBY_1000_MS,
                         mode |-> BME280_NORMAL_MODE]
      /\ \A f \in SettingsFields : HwField(hw, f) = dev.settings[f]

\* ---- the demo program: the bring-up of the sensor -------------------------------
\* C40: in the demo the bring-up of the sensor runs at most once in the
\* process and tries address 0x77, then 0x76, each at most once.  An attempt
\* whose bme280_init fails closes the descriptor it opened before the next
\* attempt or the return, so every attempt starts with no descriptor open,
\* the process never holds more than the one descriptor g_i2c_dev.fd names,
\* after a failed bring-up none is open (fd = -1) and after a successful
\* one exactly one is open, bound to the address the sensor answered at.
C40_BringUpOnce ==
    demo.running =>
      /\ IsPrefix(demo.attempts, Addrs)
      /\ demo.nopen = (IF demo.fd = -1 THEN 0 ELSE 1)
      /\ demo.api.pc = "open" => demo.fd = -1
      /\ demo.bme_tried =>
           IF demo.bme_inited = 1
           THEN demo.fd = demo.bme_addr /\ demo.nopen = 1
                  /\ demo.fd = demo.attempts[Len(demo.attempts)]
           ELSE demo.fd = -1 /\ demo.nopen = 0
      /\ (demo.bme_tried /\ demo.at = 0) =>
           (demo.bme_inited = 0 /\ demo.fd = -1)

\* The sensor did not come up at 0x77, whose descriptor was closed, and came
\* up at 0x76; the program is in a later update cycle.
C40_Witness ==
    /\ demo.running
    /\ demo.bme_tried
    /\ demo.bme_inited = 1
    /\ demo.attempts = Addrs
    /\ demo.fd = BME280_I2C_ADDR_SDO_LOW
    /\ demo.nopen = 1
    /\ demo.cycles = 1
====
